---- MODULE Spec2Model ----
(***************************************************************************)
(* Model of the scraping / merge pipeline of automatic-jav.                *)
(*                                                                         *)
(*   SpecNorm     normalize_url          (scripts/dupe_filter.py)          *)
(*   Spec         merge_csvs             (scripts/dupe_filter.py)          *)
(*   SpecFetch    fetch_with_retries     (scripts/missav.py, scraper.py)   *)
(*   SpecCrawl    crawl_listing_posts    (scripts/missav.py)               *)
(*   SpecNext     find_next_page_url     (scripts/missav.py)               *)
(*   SpecDecode   decode_packed_eval     (scripts/missav.py)               *)
(*   SpecExtract  extract_playlist_urls  (scripts/missav.py)               *)
(*   SpecProcess  process_url            (scripts/missav.py)               *)
(*   SpecMain     main                   (scripts/missav.py)               *)
(*   SpecScraper  process_page, main     (scripts/scraper.py)              *)
(*                                                                         *)
(* Text is modelled as sequences of one-character strings, so that         *)
(* splitting, quoting and re-joining of URLs is computed, not assumed.     *)
(***************************************************************************)
EXTENDS Integers, Sequences, FiniteSets, TLC

VARIABLES
  \* normalize_url under test
  src,        \* the components the first URL was written from
  url,        \* the first URL, as text
  url2,       \* a URL that differs from url in one inessential respect
  norm1,      \* normalize_url(url)
  norm2,      \* normalize_url(url2)
  norm11,     \* normalize_url(normalize_url(url))
  npc         \* "idle", "input", "normalized", "done"

VARIABLES
  \* merge_csvs
  files,      \* the snapshot files of RAW_RESULTS_DIR: name -> mtime, header, rows
  listdir,    \* the order in which os.listdir names them
  csv_files,  \* the result of list_csv_files()
  fi,         \* position in csv_files of the file being read
  ri,         \* position of the next row of that file
  all_columns,
  seen,       \* the dedupe store, in insertion order (a Python dict)
  total_rows,
  skipped_missing_page_url,
  duplicates,
  output,     \* the rows written to OUTPUT_FILE
  pc          \* "idle", "list", "scan", "rows", "done"

VARIABLES
  \* fetch_with_retries
  impl,         \* "missav" (scripts/missav.py) or "scraper" (scripts/scraper.py)
  use_crawl4ai, \* Fetcher.use_crawl4ai
  retries,      \* the retries argument, RETRIES in scraper.py
  attempt,      \* the loop variable
  html,         \* the result of the last fetch
  result,       \* the value returned
  exc,          \* the exception raised to the caller, "none" when none
  log,          \* the awaits of the call so far: fetches, sleeps, fallback
  fpc           \* "idle", "bootstrap", "aborted", "fetch", "sleep", "fallback",
                \* "returned", "raised"

VARIABLES
  \* crawl_listing_posts
  max_pages,    \* the max_pages argument
  cur_url,      \* url: the listing page to fetch next, None when there is none
  seen_pages,
  page_num,
  all_posts,
  visits,       \* the URLs fetch_with_retries was called with, in order
  tries,        \* the loop variable of fetch_with_retries in the current call
  page_html,    \* html: the page the last call returned, None when it failed
  crawl_result, \* the list returned
  cpc           \* "idle", "loop", "fetch", "parse", "done"

VARIABLES
  \* find_next_page_url under test
  next_doc,     \* the parsed page
  next_base,    \* base_url
  next_url,     \* the value returned
  xpc           \* "idle", "input", "done"

VARIABLES
  \* decode_packed_eval under test
  packed,       \* what the payload was packed from: text, base, dictionary, count
  payload,
  decoded,      \* the value returned
  dec_exc,      \* the exception raised, "none" when none
  dpc           \* "idle", "input", "done"

VARIABLES
  \* extract_playlist_urls under test
  ex_text,
  ex_urls,      \* the list returned
  epc           \* "idle", "input", "done"

VARIABLES
  \* process_url after its fetch
  pu_html,      \* html: the page fetched
  pu_decoded,   \* decoded: None when the decoder gave none
  pu_input,     \* the text the returned list was extracted from: "decoded", "html"
  pu_result,    \* the list returned
  pu_exc,       \* the exception raised, "none" when none
  ppc           \* "idle", "input", "decoded", "done"

VARIABLES
  \* main of scripts/missav.py
  concurrency,  \* the size of the semaphore
  walk_left,    \* listing pages crawl_listing_posts has still to fetch
  found_posts,  \* the item URLs the walk will have collected
  target_urls,  \* the list returned by crawl_listing_posts
  sem,          \* the value of the semaphore
  tasks,        \* per item: pc, attempt, whether a page was fetched, result
  results,      \* the list returned by asyncio.gather
  oi,           \* position of the outer loop over results
  ii,           \* position of the inner loop over results, 0 outside it
  out_file,     \* the lines appended to OUTPUT_FILE
  interrupted,  \* a KeyboardInterrupt has arrived
  mpc           \* "idle", "crawl", "gather", "output", "done", "raised"

VARIABLES
  \* main and process_page of scripts/scraper.py
  max_concurrency, \* the size of the semaphore
  page_body,       \* per page number: what fetch_with_retries returns for it
  page_sem,        \* the value of the semaphore
  page_pc,         \* per page number: "new", "fetch", "found", "locked",
                   \* "done", "failed"
  page_found,      \* per page number: found, the set extract_links returned
  results_lock,    \* the page number of the task holding the lock, 0 when free
  link_results,    \* results, the set shared by the tasks
  spc              \* "idle", "gather", "done"

fetchVars == << impl, use_crawl4ai, retries, attempt, html, result, exc, log, fpc >>

normVars == << src, url, url2, norm1, norm2, norm11, npc >>

mergeVars == << files, listdir, csv_files, fi, ri, all_columns, seen, total_rows,
                skipped_missing_page_url, duplicates, output, pc >>

crawlVars == << max_pages, cur_url, seen_pages, page_num, all_posts, visits, tries,
                page_html, crawl_result, cpc >>

\* the variables of the parts modelled after the fetch service
nextVars == << next_doc, next_base, next_url, xpc >>

decVars == << packed, payload, decoded, dec_exc, dpc >>

exVars == << ex_text, ex_urls, epc >>

procVars == << pu_html, pu_decoded, pu_input, pu_result, pu_exc, ppc >>

mainVars == << concurrency, walk_left, found_posts, target_urls, sem, tasks, results,
               oi, ii, out_file, interrupted, mpc >>

scrVars == << max_concurrency, page_body, page_sem, page_pc, page_found,
              results_lock, link_results, spc >>

\* the variables of the item pipeline and of the page pool
pipeVars == << procVars, mainVars, scrVars >>

restVars == << crawlVars, nextVars, decVars, exVars, pipeVars >>

vars == << normVars, mergeVars, fetchVars, restVars >>

\* ------------------------------------------------------------------------
\* Characters and strings
\* ------------------------------------------------------------------------

\* The characters of the model in code-point order (Python compares str by
\* code point; only the relative order matters here).
Chars ==
  << " ", "#", "%", "&", "+", ".", "/", "1", "2", "3", "5", ":", "=", "?",
     "A", "B", "C", "D", "E", "F", "G", "H", "I", "J", "K", "L", "M",
     "N", "O", "P", "Q", "R", "S", "T", "U", "V", "W", "X", "Y", "Z", "_",
     "a", "b", "c", "d", "e", "f", "g", "h", "i", "j", "k", "l", "m",
     "n", "o", "p", "q", "r", "s", "t", "u", "v", "w", "x", "y", "z" >>

UpperChars ==
  << "A", "B", "C", "D", "E", "F", "G", "H", "I", "J", "K", "L", "M",
     "N", "O", "P", "Q", "R", "S", "T", "U", "V", "W", "X", "Y", "Z" >>

LowerChars ==
  << "a", "b", "c", "d", "e", "f", "g", "h", "i", "j", "k", "l", "m",
     "n", "o", "p", "q", "r", "s", "t", "u", "v", "w", "x", "y", "z" >>

DigitChars == {"1", "2", "3", "5"}

Range(s) == {s[i] : i \in 1..Len(s)}

Ord(c) == CHOOSE i \in 1..Len(Chars) : Chars[i] = c

IsUpper(c) == c \in Range(UpperChars)

IsAlpha(c) == c \in Range(UpperChars) \cup Range(LowerChars)

\* str.lower() on one character
LowerChar(c) ==
  IF IsUpper(c)
    THEN LowerChars[CHOOSE i \in 1..Len(UpperChars) : UpperChars[i] = c]
    ELSE c

\* str.lower()
Lower(s) == [i \in 1..Len(s) |-> LowerChar(s[i])]

\* s[i:] and s[:i] with 1-based positions
From(s, i) == IF i > Len(s) THEN << >> ELSE SubSeq(s, i, Len(s))

Upto(s, i) == IF i < 1 THEN << >> ELSE SubSeq(s, 1, i)

\* str.find(c) + 1 : position of the first c in s, 0 when absent
Find(s, c) ==
  IF \E i \in 1..Len(s) : s[i] = c
    THEN CHOOSE i \in 1..Len(s) : s[i] = c /\ \A j \in 1..(i - 1) : s[j] # c
    ELSE 0

\* position of the first character of s that is in set cs, Len(s)+1 when none
FindAny(s, cs) ==
  IF \E i \in 1..Len(s) : s[i] \in cs
    THEN CHOOSE i \in 1..Len(s) : s[i] \in cs /\ \A j \in 1..(i - 1) : s[j] \notin cs
    ELSE Len(s) + 1

\* Python's < on str
RECURSIVE StrLess(_, _)
StrLess(s, t) ==
  IF t = << >> THEN FALSE
  ELSE IF s = << >> THEN TRUE
  ELSE IF s[1] # t[1] THEN Ord(s[1]) < Ord(t[1])
  ELSE StrLess(Tail(s), Tail(t))

\* str.split(sep) for a one-character separator
RECURSIVE Split(_, _)
Split(s, sep) ==
  LET i == Find(s, sep)
  IN IF i = 0 THEN << s >>
     ELSE << Upto(s, i - 1) >> \o Split(From(s, i + 1), sep)

\* sep.join(parts)
RECURSIVE Join(_, _)
Join(parts, sep) ==
  IF parts = << >> THEN << >>
  ELSE IF Len(parts) = 1 THEN parts[1]
  ELSE parts[1] \o sep \o Join(Tail(parts), sep)

\* Python None: a value that is no text (its one element is no character)
NoneVal == << "None" >>

\* ------------------------------------------------------------------------
\* normalize_url (scripts/dupe_filter.py 14-45, build_home.py 16-37)
\* ------------------------------------------------------------------------

\* whitespace removed by str.strip()
WhiteSpace == {" "}

RECURSIVE LStrip(_)
LStrip(s) ==
  IF s # << >> /\ s[1] \in WhiteSpace THEN LStrip(Tail(s)) ELSE s

RECURSIVE RStrip(_)
RStrip(s) ==
  IF s # << >> /\ s[Len(s)] \in WhiteSpace THEN RStrip(Upto(s, Len(s) - 1)) ELSE s

\* a mutant of StripWs: the trim is forgotten
StripWsNoTrim(s) == s

\* url.strip()
StripWs(s) == RStrip(LStrip(s))

\* urllib.parse.scheme_chars
SchemeChars == Range(UpperChars) \cup Range(LowerChars) \cup DigitChars \cup {"+", "."}

\* urllib.parse.uses_netloc, the members the model's alphabet can spell
UsesNetloc == { <<"h", "t", "t", "p">>, <<"h", "t", "t", "p", "s">> }

\* urllib.parse.urlsplit(url) -> [scheme, netloc, path, query, fragment]
urlsplit(text) ==
  LET colon   == Find(text, ":")
      hasSch  == /\ colon > 1
                 /\ IsAlpha(text[1])
                 /\ \A i \in 1..(colon - 1) : text[i] \in SchemeChars
      scheme  == IF hasSch THEN Lower(Upto(text, colon - 1)) ELSE << >>
      rest1   == IF hasSch THEN From(text, colon + 1) ELSE text
      hasNet  == Len(rest1) >= 2 /\ rest1[1] = "/" /\ rest1[2] = "/"
      afterSl == From(rest1, 3)
      delim   == FindAny(afterSl, {"/", "?", "#"})
      netloc  == IF hasNet THEN Upto(afterSl, delim - 1) ELSE << >>
      rest2   == IF hasNet THEN From(afterSl, delim) ELSE rest1
      hash    == Find(rest2, "#")
      fragment == IF hash > 0 THEN From(rest2, hash + 1) ELSE << >>
      rest3   == IF hash > 0 THEN Upto(rest2, hash - 1) ELSE rest2
      qm      == Find(rest3, "?")
      query   == IF qm > 0 THEN From(rest3, qm + 1) ELSE << >>
      path    == IF qm > 0 THEN Upto(rest3, qm - 1) ELSE rest3
  IN [scheme |-> scheme, netloc |-> netloc, path |-> path,
      query |-> query, fragment |-> fragment]

\* characters quote_plus leaves alone
QuoteSafe == Range(UpperChars) \cup Range(LowerChars) \cup DigitChars \cup {"_", "."}

\* percent escapes of the characters of the alphabet that need one
Escapes ==
  { <<"#", <<"%", "2", "3">> >>, <<"%", <<"%", "2", "5">> >>,
    <<"&", <<"%", "2", "6">> >>, <<"+", <<"%", "2", "B">> >>,
    <<"/", <<"%", "2", "F">> >>, <<":", <<"%", "3", "A">> >>,
    <<"=", <<"%", "3", "D">> >>, <<"?", <<"%", "3", "F">> >> }

EscapeOf(c) == (CHOOSE e \in Escapes : e[1] = c)[2]

\* urllib.parse.quote_plus(s)
RECURSIVE quote_plus(_)
quote_plus(s) ==
  IF s = << >> THEN << >>
  ELSE (IF s[1] = " " THEN <<"+">>
        ELSE IF s[1] \in QuoteSafe THEN << s[1] >>
        ELSE EscapeOf(s[1])) \o quote_plus(Tail(s))

\* urllib.parse.unquote(s.replace('+', ' '))
RECURSIVE unquote_plus(_)
unquote_plus(s) ==
  IF s = << >> THEN << >>
  ELSE IF s[1] = "+" THEN <<" ">> \o unquote_plus(Tail(s))
  ELSE IF /\ s[1] = "%"
          /\ Len(s) >= 3
          /\ \E e \in Escapes : e[2] = Upto(s, 3)
       THEN << (CHOOSE e \in Escapes : e[2] = Upto(s, 3))[1] >>
              \o unquote_plus(From(s, 4))
  ELSE << s[1] >> \o unquote_plus(Tail(s))

\* one name_value of parse_qsl: split on the first "=", blank value kept
ParsePair(nv) ==
  LET eq == Find(nv, "=")
  IN IF eq = 0 THEN << unquote_plus(nv), << >> >>
     ELSE << unquote_plus(Upto(nv, eq - 1)), unquote_plus(From(nv, eq + 1)) >>

RECURSIVE ParsePairs(_)
ParsePairs(nvs) ==
  IF nvs = << >> THEN << >>
  ELSE IF nvs[1] = << >> THEN ParsePairs(Tail(nvs))
  ELSE << ParsePair(nvs[1]) >> \o ParsePairs(Tail(nvs))

\* urllib.parse.parse_qsl(query, keep_blank_values=True)
parse_qsl(query) == ParsePairs(Split(query, "&"))

\* the tracking parameters of the denylist
drop ==
  { <<"u", "t", "m", "_", "s", "o", "u", "r", "c", "e">>,
    <<"u", "t", "m", "_", "m", "e", "d", "i", "u", "m">>,
    <<"u", "t", "m", "_", "c", "a", "m", "p", "a", "i", "g", "n">>,
    <<"u", "t", "m", "_", "t", "e", "r", "m">>,
    <<"u", "t", "m", "_", "c", "o", "n", "t", "e", "n", "t">>,
    <<"g", "c", "l", "i", "d">>,
    <<"f", "b", "c", "l", "i", "d">> }

\* the filter of the list comprehension: k.lower() not in drop
KeepParam(kv) == Lower(kv[1]) \notin drop

RECURSIVE FilterParams(_)
FilterParams(q) ==
  IF q = << >> THEN << >>
  ELSE IF KeepParam(q[1]) THEN << q[1] >> \o FilterParams(Tail(q))
  ELSE FilterParams(Tail(q))

\* Python's < on (k, v) tuples
PairLess(a, b) ==
  \/ StrLess(a[1], b[1])
  \/ a[1] = b[1] /\ StrLess(a[2], b[2])

RECURSIVE InsertPair(_, _)
InsertPair(sq, x) ==
  IF sq = << >> THEN << x >>
  ELSE IF PairLess(x, sq[1]) THEN << x >> \o sq
  ELSE << sq[1] >> \o InsertPair(Tail(sq), x)

\* sorted(q), a stable ascending sort
RECURSIVE SortPairs(_)
SortPairs(q) ==
  IF q = << >> THEN << >>
  ELSE InsertPair(SortPairs(Upto(q, Len(q) - 1)), q[Len(q)])

RECURSIVE EncodePairs(_)
EncodePairs(q) ==
  IF q = << >> THEN << >>
  ELSE << quote_plus(q[1][1]) \o <<"=">> \o quote_plus(q[1][2]) >>
         \o EncodePairs(Tail(q))

\* urllib.parse.urlencode(q, doseq=True) for str values
urlencode(q) == Join(EncodePairs(q), <<"&">>)

\* urllib.parse.urlunsplit((scheme, netloc, path, query, fragment))
urlunsplit(scheme, netloc, path, query, fragment) ==
  LET withNet == \/ netloc # << >>
                 \/ /\ scheme # << >>
                    /\ scheme \in UsesNetloc
                    /\ ~(Len(path) >= 2 /\ path[1] = "/" /\ path[2] = "/")
      p1 == IF withNet /\ path # << >> /\ path[1] # "/" THEN <<"/">> \o path ELSE path
      u1 == IF withNet THEN <<"/", "/">> \o netloc \o p1 ELSE path
      u2 == IF scheme # << >> THEN scheme \o <<":">> \o u1 ELSE u1
      u3 == IF query # << >> THEN u2 \o <<"?">> \o query ELSE u2
  IN IF fragment # << >> THEN u3 \o <<"#">> \o fragment ELSE u3

\* normalize_url(url)
normalize_url(raw) ==
  IF raw = NoneVal THEN << >>
  ELSE LET u == StripWs(raw)
       IN IF u = << >> THEN << >>
          ELSE LET parts == urlsplit(u)
                   q     == FilterParams(parse_qsl(parts.query))
                   query == urlencode(SortPairs(q))
               IN urlunsplit(Lower(parts.scheme), Lower(parts.netloc),
                             parts.path, query, << >>)

\* ------------------------------------------------------------------------
\* SpecNorm: normalize_url applied to URLs written from a few components
\* ------------------------------------------------------------------------

\* most query parameters of a generated URL
MaxParams == 3

Pads == { << >>, <<" ">> }

Schemes == { <<"h", "t", "t", "p">>, <<"H", "T", "T", "P">> }

Hosts == { <<"a", ".", "c", "o">>, <<"A", ".", "c", "o">> }

Paths == { <<"/", "p">>, <<"/", "P">>, <<"/", "p", " ">> }

PlainParams == { <<"b", "=", "2">>, <<"a", "=", "/">> }

TrackingParams ==
  { <<"u", "t", "m", "_", "s", "o", "u", "r", "c", "e", "=", "x">>,
    <<"G", "c", "l", "i", "d">> }

Params == PlainParams \cup TrackingParams

\* "no fragment" is NoneVal; << >> is a bare "#"
Fragments == { NoneVal, <<"f">> }

\* sequences of pairwise different parameters, at most MaxParams long
ParamLists ==
  UNION { { q \in [1..n -> Params] : \A i, j \in 1..n : i # j => q[i] # q[j] }
          : n \in 0..MaxParams }

UrlSpecs ==
  [pad : Pads, scheme : Schemes, host : Hosts, path : Paths,
   params : ParamLists, fragment : Fragments]

\* the text of a URL written from components
BuildUrl(s) ==
  s.pad \o s.scheme \o <<":", "/", "/">> \o s.host \o s.path
    \o (IF s.params = << >> THEN << >> ELSE <<"?">> \o Join(s.params, <<"&">>))
    \o (IF s.fragment = NoneVal THEN << >> ELSE <<"#">> \o s.fragment)
    \o s.pad

RECURSIVE PlainOnly(_)
PlainOnly(q) ==
  IF q = << >> THEN << >>
  ELSE IF q[1] \in PlainParams THEN << q[1] >> \o PlainOnly(Tail(q))
  ELSE PlainOnly(Tail(q))

\* q2 has the plain parameters of q, in any order, and any tracking ones
SameParams(q, q2) == Range(PlainOnly(q)) = Range(PlainOnly(q2))

\* the URLs that differ from s in exactly one of: the order of the query
\* parameters and the tracking parameters present, the fragment, the case
\* of the scheme, the case of the host (or in nothing)
Variants(s) ==
  { [s EXCEPT !.params = q] : q \in { q2 \in ParamLists : SameParams(s.params, q2) } }
    \cup { [s EXCEPT !.fragment = f] : f \in Fragments }
    \cup { [s EXCEPT !.scheme = c] : c \in Schemes }
    \cup { [s EXCEPT !.host = h] : h \in Hosts }

IdleFetch ==
  /\ impl = "none"
  /\ use_crawl4ai = FALSE
  /\ retries = 0
  /\ attempt = 0
  /\ html = NoneVal
  /\ result = NoneVal
  /\ exc = "none"
  /\ log = << >>
  /\ fpc = "idle"

IdleNorm ==
  /\ src = << >>
  /\ url = << >>
  /\ url2 = << >>
  /\ norm1 = NoneVal
  /\ norm2 = NoneVal
  /\ norm11 = NoneVal
  /\ npc = "idle"

IdleMerge ==
  /\ files = << >>
  /\ listdir = << >>
  /\ csv_files = << >>
  /\ fi = 0
  /\ ri = 0
  /\ all_columns = << >>
  /\ seen = << >>
  /\ total_rows = 0
  /\ skipped_missing_page_url = 0
  /\ duplicates = 0
  /\ output = << >>
  /\ pc = "idle"

IdleCrawl ==
  /\ max_pages = 0
  /\ cur_url = NoneVal
  /\ seen_pages = { }
  /\ page_num = 0
  /\ all_posts = { }
  /\ visits = << >>
  /\ tries = 0
  /\ page_html = NoneVal
  /\ crawl_result = << >>
  /\ cpc = "idle"

IdleNext ==
  /\ next_doc = << >>
  /\ next_base = << >>
  /\ next_url = NoneVal
  /\ xpc = "idle"

IdleDec ==
  /\ packed = NoneVal
  /\ payload = << >>
  /\ decoded = NoneVal
  /\ dec_exc = "none"
  /\ dpc = "idle"

IdleEx ==
  /\ ex_text = << >>
  /\ ex_urls = << >>
  /\ epc = "idle"

IdleProc ==
  /\ pu_html = << >>
  /\ pu_decoded = NoneVal
  /\ pu_input = "none"
  /\ pu_result = << >>
  /\ pu_exc = "none"
  /\ ppc = "idle"

IdleMain ==
  /\ concurrency = 0
  /\ walk_left = 0
  /\ found_posts = { }
  /\ target_urls = << >>
  /\ sem = 0
  /\ tasks = << >>
  /\ results = << >>
  /\ oi = 0
  /\ ii = 0
  /\ out_file = << >>
  /\ interrupted = FALSE
  /\ mpc = "idle"

IdleScr ==
  /\ max_concurrency = 0
  /\ page_body = << >>
  /\ page_sem = 0
  /\ page_pc = << >>
  /\ page_found = << >>
  /\ results_lock = 0
  /\ link_results = { }
  /\ spc = "idle"

IdlePipe == IdleProc /\ IdleMain /\ IdleScr

IdleRest == IdleCrawl /\ IdleNext /\ IdleDec /\ IdleEx /\ IdlePipe

InitNorm ==
  /\ IdleMerge
  /\ IdleFetch
  /\ IdleRest
  /\ src \in UrlSpecs
  /\ url = BuildUrl(src)
  /\ url2 \in { BuildUrl(v) : v \in Variants(src) }
  /\ norm1 = NoneVal
  /\ norm2 = NoneVal
  /\ norm11 = NoneVal
  /\ npc = "input"

\* norm = normalize_url(url) for both URLs
Normalize ==
  /\ npc = "input"
  /\ norm1' = normalize_url(url)
  /\ norm2' = normalize_url(url2)
  /\ npc' = "normalized"
  /\ UNCHANGED << src, url, url2, norm11 >>
  /\ UNCHANGED << mergeVars, fetchVars, restVars >>

\* normalize_url applied to its own result
Renormalize ==
  /\ npc = "normalized"
  /\ norm11' = normalize_url(norm1)
  /\ npc' = "done"
  /\ UNCHANGED << src, url, url2, norm1, norm2 >>
  /\ UNCHANGED << mergeVars, fetchVars, restVars >>

NextNorm == Normalize \/ Renormalize

SpecNorm == InitNorm /\ [][NextNorm]_vars

\* C7: normalize_url is idempotent,
\* normalize_url(normalize_url(u)) = normalize_url(u) for every URL u.
C7_Idempotent == npc = "done" => norm11 = norm1

\* C8: two URLs that differ only in the order of their query parameters, in
\* the tracking parameters present, in the fragment or in the letter case of
\* scheme and host normalize to the same text, and the path of the URL is
\* the path of its normal form.
C8_SameNormalForm ==
  npc \in {"normalized", "done"} =>
    /\ norm1 = norm2
    /\ urlsplit(norm1).path = urlsplit(StripWs(url)).path

\* ------------------------------------------------------------------------
\* Spec: merge_csvs (scripts/dupe_filter.py 47-143)
\* ------------------------------------------------------------------------

DEDUP_COL == "page_url"

IMAGE_COL == "image_url"

\* most rows of all snapshot files together
MaxRows == 3

\* the greatest modification time of a file, in ticks
MaxMtime == 2

\* ticks in a second: getmtime() is finer than the seconds strftime writes
TicksPerSecond == 2

\* the names os.listdir can return
FileNames == { "s1.csv", "s2.csv" }

\* the columns a snapshot can have
Columns == { "page_url", "image_url", "title" }

\* the value of a column that the row's dict has no entry for
Absent == << "Absent" >>

\* "h://a/p", "H://A/p#f" (the same page) and "h://a/b"
UA == <<"h", ":", "/", "/", "a", "/", "p">>

UA2 == <<"H", ":", "/", "/", "A", "/", "p", "#", "f">>

UB == <<"h", ":", "/", "/", "a", "/", "b">>

\* rows of a snapshot that has the page_url column; a short line leaves None
PageRows ==
  { [page_url |-> UA,        image_url |-> <<"1">>, title |-> Absent],
    [page_url |-> UA2,       image_url |-> <<"2">>, title |-> Absent],
    [page_url |-> UB,        image_url |-> <<"1">>, title |-> Absent],
    [page_url |-> <<" ">>,   image_url |-> <<"1">>, title |-> Absent],
    [page_url |-> << >>,     image_url |-> <<"2">>, title |-> Absent],
    [page_url |-> NoneVal,   image_url |-> <<"2">>, title |-> Absent] }

\* the row of a snapshot of another schema
OtherRow == [page_url |-> Absent, image_url |-> <<"1">>, title |-> <<"t">>]

SeqsUpTo(S, n) == UNION { [1..k -> S] : k \in 0..n }

\* the kinds of snapshot file: with the page_url column, of another schema,
\* without a header line
FileKinds == { "page", "other", "empty" }

\* a snapshot file of a kind, with the given rows when it has page_url
FileContent(kind, mt, rows) ==
  IF kind = "page"
    THEN [mtime |-> mt, fieldnames |-> <<"page_url", "image_url">>, rows |-> rows]
  ELSE IF kind = "other"
    THEN [mtime |-> mt, fieldnames |-> <<"title", "image_url">>, rows |-> << OtherRow >>]
  ELSE [mtime |-> mt, fieldnames |-> << >>, rows |-> << >>]

\* the orders in which a set of names can be listed
Orders(S) ==
  { o \in [1..Cardinality(S) -> S] : \A i, j \in 1..Cardinality(S) : i # j => o[i] # o[j] }

\* row.get(col, "")
RowGet(row, col) == IF row[col] = Absent THEN << >> ELSE row[col]

\* insertion of x behind every element at least as new: a stable sort with
\* key mtime and reverse=True keeps equal elements in their given order
RECURSIVE InsertNewestFirst(_, _)
InsertNewestFirst(sq, x) ==
  IF sq = << >> THEN << x >>
  ELSE IF x.mtime > sq[1].mtime THEN << x >> \o sq
  ELSE << sq[1] >> \o InsertNewestFirst(Tail(sq), x)

RECURSIVE SortNewestFirst(_)
SortNewestFirst(sq) ==
  IF sq = << >> THEN << >>
  ELSE InsertNewestFirst(SortNewestFirst(Upto(sq, Len(sq) - 1)), sq[Len(sq)])

\* list_csv_files(): the listed names, newest first by mtime
list_csv_files(dir, names) ==
  LET tagged == [i \in 1..Len(names) |-> [name |-> names[i], mtime |-> dir[names[i]].mtime]]
      sorted == SortNewestFirst(tagged)
  IN [i \in 1..Len(sorted) |-> sorted[i].name]

\* for col in reader.fieldnames: append the columns not yet known
RECURSIVE TrackColumns(_, _)
TrackColumns(cols, fieldnames) ==
  IF fieldnames = << >> THEN cols
  ELSE TrackColumns(IF fieldnames[1] \in Range(cols) THEN cols
                    ELSE Append(cols, fieldnames[1]),
                    Tail(fieldnames))

\* the primary URLs the rows of the snapshots can have
PageUrls == { RowGet(r, DEDUP_COL) : r \in PageRows \cup { OtherRow } }

\* normalize_url over the primary URLs of the snapshots, computed once
NormalForm == [raw \in PageUrls |-> normalize_url(raw)]

\* the normalized key of a primary URL of the snapshots
KeyOfUrl(raw) == NormalForm[raw]

\* a mutant of DedupKey: the key is the pair of page URL and image URL
DedupKeyPair(row) ==
  LET norm_page == normalize_url(RowGet(row, DEDUP_COL))
  IN IF norm_page = << >> THEN << >>
     ELSE norm_page \o <<"#">> \o RowGet(row, IMAGE_COL)

\* raw_page = row.get(DEDUP_COL, ""); norm_page = normalize_url(raw_page)
DedupKey(row) == KeyOfUrl(RowGet(row, DEDUP_COL))

\* norm_page in seen
HasKey(store, key) == \E i \in 1..Len(store) : store[i].key = key

KeyPos(store, key) == CHOOSE i \in 1..Len(store) : store[i].key = key

\* a mutant of IsNewer: the older row is kept
IsOlder(mt, prev_mtime) == mt < prev_mtime

\* a mutant of IsNewer: the row read last always replaces the stored one
IsAnything(mt, prev_mtime) == TRUE

\* if mtime > prev_mtime
IsNewer(mt, prev_mtime) == mt > prev_mtime

\* a mutant of SeenUpdate: every row is stored, a repeated key too
SeenUpdateNoDedup(store, key, mt, fname, row) ==
  Append(store, [key |-> key, mtime |-> mt, fname |-> fname, row |-> row])

\* the update of the dedupe store for one row with a usable key:
\* a new key is appended, a known key keeps its place and takes the row
\* of the newer file
SeenUpdate(store, key, mt, fname, row) ==
  LET entry == [key |-> key, mtime |-> mt, fname |-> fname, row |-> row]
  IN IF HasKey(store, key)
       THEN IF IsNewer(mt, store[KeyPos(store, key)].mtime)
              THEN [store EXCEPT ![KeyPos(store, key)] = entry]
              ELSE store
       ELSE Append(store, entry)

\* a mutant of SortedItems: oldest first
SortedItemsOldestFirst(store) ==
  LET sorted == SortNewestFirst(store)
  IN [i \in 1..Len(sorted) |-> sorted[Len(sorted) + 1 - i]]

\* items = sorted(seen.items(), key=lambda kv: kv[1][0], reverse=True)
SortedItems(store) == SortNewestFirst(store)

\* datetime.fromtimestamp(mtime).strftime("%Y-%m-%d %H:%M:%S"): whole seconds
FormatMtime(mt) == mt \div TicksPerSecond

\* the row written for one item
OutRow(item, cols) ==
  [cols |-> [c \in Range(cols) |-> RowGet(item.row, c)],
   normalized_page_url |-> item.key,
   source_file |-> item.fname,
   source_file_mtime |-> FormatMtime(item.mtime)]

CurFile == files[csv_files[fi]]

Init ==
  /\ IdleNorm
  /\ IdleFetch
  /\ IdleRest
  /\ \E S \in SUBSET FileNames :
       \E order \in Orders(S), kind \in [S -> FileKinds], mt \in [S -> 1..MaxMtime],
          all \in SeqsUpTo(PageRows, MaxRows), cut \in 0..MaxRows :
         LET share(i) == IF i = 1 THEN Upto(all, cut) ELSE From(all, cut + 1)
         IN /\ cut <= Len(all)
            /\ Len(order) = 0 => all = << >>
            /\ Len(order) = 1 => cut = Len(all)
            /\ \A i \in 1..Len(order) : kind[order[i]] # "page" => share(i) = << >>
            /\ listdir = order
            /\ files = [f \in S |->
                          FileContent(kind[f], mt[f],
                                      share(CHOOSE i \in 1..Len(order) : order[i] = f))]
  /\ csv_files = << >>
  /\ fi = 0
  /\ ri = 0
  /\ all_columns = << >>
  /\ seen = << >>
  /\ total_rows = 0
  /\ skipped_missing_page_url = 0
  /\ duplicates = 0
  /\ output = << >>
  /\ pc = "list"

\* csv_files = list_csv_files(); return when there is none
ListCsvFiles ==
  /\ pc = "list"
  /\ csv_files' = list_csv_files(files, listdir)
  /\ IF csv_files' = << >>
       THEN pc' = "done" /\ fi' = fi
       ELSE pc' = "scan" /\ fi' = 1
  /\ UNCHANGED << files, listdir, ri, all_columns, seen, total_rows,
                  skipped_missing_page_url, duplicates, output >>
  /\ UNCHANGED << normVars, fetchVars, restVars >>

\* the head of the loop over csv_files: the reader is opened, the columns
\* tracked, a file without header or without DEDUP_COL passed over
OpenFile ==
  /\ pc = "scan"
  /\ fi <= Len(csv_files)
  /\ IF CurFile.fieldnames = << >>
       THEN /\ fi' = fi + 1
            /\ UNCHANGED << pc, ri, all_columns >>
       ELSE /\ all_columns' = TrackColumns(all_columns, CurFile.fieldnames)
            /\ IF DEDUP_COL \notin Range(CurFile.fieldnames)
                 THEN fi' = fi + 1 /\ UNCHANGED << pc, ri >>
                 ELSE pc' = "rows" /\ ri' = 1 /\ fi' = fi
  /\ UNCHANGED << files, listdir, csv_files, seen, total_rows,
                  skipped_missing_page_url, duplicates, output >>
  /\ UNCHANGED << normVars, fetchVars, restVars >>

\* one turn of "for row in reader"
ProcessRow ==
  /\ pc = "rows"
  /\ ri <= Len(CurFile.rows)
  /\ LET row       == CurFile.rows[ri]
         norm_page == DedupKey(row)
     IN /\ total_rows' = total_rows + 1
        /\ IF norm_page = << >>
             THEN /\ skipped_missing_page_url' = skipped_missing_page_url + 1
                  /\ UNCHANGED << seen, duplicates >>
             ELSE /\ duplicates' = IF HasKey(seen, norm_page)
                                     THEN duplicates + 1 ELSE duplicates
                  /\ seen' = SeenUpdate(seen, norm_page, CurFile.mtime,
                                        csv_files[fi], row)
                  /\ UNCHANGED skipped_missing_page_url
  /\ ri' = ri + 1
  /\ UNCHANGED << files, listdir, csv_files, fi, all_columns, output, pc >>
  /\ UNCHANGED << normVars, fetchVars, restVars >>

\* the reader is exhausted: on to the next file
CloseFile ==
  /\ pc = "rows"
  /\ ri > Len(CurFile.rows)
  /\ fi' = fi + 1
  /\ pc' = "scan"
  /\ UNCHANGED << files, listdir, csv_files, ri, all_columns, seen, total_rows,
                  skipped_missing_page_url, duplicates, output >>
  /\ UNCHANGED << normVars, fetchVars, restVars >>

\* after the last file: the items are sorted and written to OUTPUT_FILE
WriteOutput ==
  /\ pc = "scan"
  /\ fi > Len(csv_files)
  /\ LET items == SortedItems(seen)
     IN output' = [i \in 1..Len(items) |-> OutRow(items[i], all_columns)]
  /\ pc' = "done"
  /\ UNCHANGED << files, listdir, csv_files, fi, ri, all_columns, seen, total_rows,
                  skipped_missing_page_url, duplicates >>
  /\ UNCHANGED << normVars, fetchVars, restVars >>

Next == ListCsvFiles \/ OpenFile \/ ProcessRow \/ CloseFile \/ WriteOutput

Spec == Init /\ [][Next]_vars

\* ---- the inputs of a merge, read off the files and not off the store ----

\* the file is read row by row: it has a header with DEDUP_COL
IsRead(f) == DEDUP_COL \in Range(files[f].fieldnames)

\* the rows of the files that are read, as (file, position)
ReadRows == { <<f, i>> \in (DOMAIN files) \X (1..MaxRows + 1) :
                IsRead(f) /\ i <= Len(files[f].rows) }

RowAt(fr) == files[fr[1]].rows[fr[2]]

\* the normalized key of a row
KeyOf(row) == KeyOfUrl(RowGet(row, DEDUP_COL))

\* the rows of file f with key k
RowsWithKey(f, k) ==
  { files[f].rows[i] : i \in { j \in 1..Len(files[f].rows) : KeyOf(files[f].rows[j]) = k } }

\* the usable keys of file f
KeysOf(f) ==
  IF IsRead(f)
    THEN { KeyOf(files[f].rows[i]) : i \in 1..Len(files[f].rows) } \ { << >> }
    ELSE { }

AllKeys == UNION { KeysOf(f) : f \in DOMAIN files }

\* the written rows whose page_url has key k
OutputFor(k) ==
  { i \in 1..Len(output) :
      DEDUP_COL \in DOMAIN output[i].cols /\ KeyOfUrl(output[i].cols[DEDUP_COL]) = k }

\* the written row has the columns of the row, value for value
SameColumns(o, row) ==
  \A c \in Columns : row[c] # Absent => (c \in DOMAIN o.cols /\ o.cols[c] = row[c])

\* the primary URL is missing, empty or whitespace only
IsBlank(raw) == raw = NoneVal \/ \A i \in 1..Len(raw) : raw[i] = " "

\* f1 is older than f2 and both have a row with key k, not the same rows
Conflict(f1, f2, k) ==
  /\ files[f1].mtime < files[f2].mtime
  /\ k \in KeysOf(f1) \cap KeysOf(f2)
  /\ RowsWithKey(f1, k) # RowsWithKey(f2, k)

\* C1: when two snapshot files with different timestamps have a row with the
\* same normalized key and different contents, the merge writes exactly one
\* row for the key, and its original columns are those of a row of the later
\* snapshot (of the newest snapshot that has the key).
C1_NewestRowWins ==
  pc = "done" =>
    \A f1, f2 \in DOMAIN files : \A k \in AllKeys :
      Conflict(f1, f2, k) =>
        /\ Cardinality(OutputFor(k)) = 1
        /\ \A i \in OutputFor(k) :
             /\ output[i].source_file # f1
             /\ \A g \in DOMAIN files :
                  k \in KeysOf(g) => files[g].mtime <= files[output[i].source_file].mtime
             /\ \E r \in RowsWithKey(output[i].source_file, k) : SameColumns(output[i], r)

C1_Witness ==
  /\ pc = "done"
  /\ \E f1, f2 \in DOMAIN files : \E k \in AllKeys :
       /\ Conflict(f1, f2, k)
       /\ \E i \in OutputFor(k) : output[i].source_file = f2

\* two rows that are read share the item URL and differ in the media URL
SharedItem(a, b) ==
  /\ KeyOf(RowAt(a)) # << >>
  /\ KeyOf(RowAt(a)) = KeyOf(RowAt(b))
  /\ RowAt(a)[IMAGE_COL] # RowAt(b)[IMAGE_COL]

\* C2 as claimed: the key is the pair of normalized item URL and media URL,
\* so two input rows with the same item URL and different media URLs are
\* both in the merged output.
C2_PairKey ==
  pc = "done" =>
    \A a, b \in ReadRows :
      SharedItem(a, b) =>
        /\ \E i \in 1..Len(output) : SameColumns(output[i], RowAt(a))
        /\ \E i \in 1..Len(output) : SameColumns(output[i], RowAt(b))

\* C2 as amended: the key is the normalized item URL alone, one row per key:
\* two input rows with the same item URL and different media URLs have the
\* same key, and exactly one row is written for it.
C2_PageKey ==
  pc = "done" =>
    /\ \A i, j \in 1..Len(output) :
         output[i].normalized_page_url = output[j].normalized_page_url => i = j
    /\ \A a, b \in ReadRows :
         SharedItem(a, b) =>
           /\ Cardinality(OutputFor(KeyOf(RowAt(a)))) = 1
           /\ \A i \in OutputFor(KeyOf(RowAt(a))) :
                output[i].normalized_page_url = KeyOf(RowAt(a))

C2_Witness ==
  /\ pc = "done"
  /\ \E a, b \in ReadRows :
       /\ SharedItem(a, b)
       /\ Cardinality(OutputFor(KeyOf(RowAt(a)))) = 1

\* C3: the number of merged rows is the number of distinct normalized keys
\* of all input rows; the rows without a primary URL are not among them and
\* are counted by skipped_missing_page_url.
C3_Completeness ==
  (pc = "done" /\ csv_files # << >>) =>
    /\ Len(output) = Cardinality(AllKeys)
    /\ Len(seen) = Cardinality(AllKeys)
    /\ skipped_missing_page_url
         = Cardinality({ fr \in ReadRows : KeyOf(RowAt(fr)) = << >> })

C3_Witness ==
  /\ pc = "done"
  /\ Len(output) = 2
  /\ duplicates > 0
  /\ skipped_missing_page_url = 0
  /\ Cardinality(ReadRows) = 3

\* ---- the merge of the files in an arbitrary scan order ----

RECURSIVE ScanRows(_, _, _)
ScanRows(store, f, i) ==
  IF i > Len(files[f].rows) THEN store
  ELSE LET row == files[f].rows[i]
           key == KeyOf(row)
       IN ScanRows(IF key = << >> THEN store
                   ELSE SeenUpdate(store, key, files[f].mtime, f, row),
                   f, i + 1)

RECURSIVE ScanFiles(_, _)
ScanFiles(store, order) ==
  IF order = << >> THEN store
  ELSE ScanFiles(IF IsRead(order[1]) THEN ScanRows(store, order[1], 1) ELSE store,
                 Tail(order))

\* the row kept for every key
Kept(store) == { << store[i].key, store[i].row >> : i \in 1..Len(store) }

\* no two files with the same timestamp have a key in common
TieFree ==
  \A f, g \in DOMAIN files :
    (f # g /\ files[f].mtime = files[g].mtime) => KeysOf(f) \cap KeysOf(g) = { }

\* C4 as claimed: for every order in which the snapshot files are scanned,
\* files with equal timestamps and files that repeat a key included, the
\* merge keeps the same row for every key.
C4_AnyOrder ==
  pc = "done" =>
    \A order \in Orders(DOMAIN files) : Kept(ScanFiles(<< >>, order)) = Kept(seen)

\* C4 as amended: for every order in which the snapshot files are scanned,
\* files that repeat a key included, the merge keeps the same row for every
\* key, provided no two files that have a key in common have equal
\* timestamps.
C4_AnyOrderTieFree ==
  (pc = "done" /\ TieFree) =>
    \A order \in Orders(DOMAIN files) : Kept(ScanFiles(<< >>, order)) = Kept(seen)

C4_Witness ==
  /\ pc = "done"
  /\ TieFree
  /\ Cardinality(DOMAIN files) = 2
  /\ \E f, g \in DOMAIN files :
       /\ f # g
       /\ KeysOf(f) \cap KeysOf(g) # { }
       /\ \E k \in KeysOf(f) : Cardinality(RowsWithKey(f, k)) > 1

\* ---- the order of the written rows ----

OutMtime(i) == files[output[i].source_file].mtime

\* every written row carries its key, the name of its snapshot and the time
\* of that snapshot, in whole seconds
Provenance ==
  \A i \in 1..Len(output) :
    /\ output[i].normalized_page_url = KeyOfUrl(output[i].cols[DEDUP_COL])
    /\ output[i].source_file \in DOMAIN files
    /\ \E r \in RowsWithKey(output[i].source_file, output[i].normalized_page_url) :
         SameColumns(output[i], r)
    /\ output[i].source_file_mtime = OutMtime(i) \div TicksPerSecond

\* C5 as claimed: the merged rows are written newest snapshot first, rows of
\* equal timestamp in the order of their normalized keys, and every row
\* carries its key, the name and the timestamp of its snapshot.
C5_TiesByKey ==
  pc = "done" =>
    /\ \A i, j \in 1..Len(output) :
         i < j =>
           /\ OutMtime(i) >= OutMtime(j)
           /\ OutMtime(i) = OutMtime(j) =>
                StrLess(output[i].normalized_page_url, output[j].normalized_page_url)
    /\ Provenance

\* C5 as amended: the merged rows are written newest snapshot first, rows of
\* equal timestamp in the order in which their keys were first stored during
\* the scan, and every row carries its key, the name and the timestamp of
\* its snapshot.
C5_TiesByInsertion ==
  pc = "done" =>
    /\ \A i, j \in 1..Len(output) :
         i < j =>
           /\ OutMtime(i) >= OutMtime(j)
           /\ OutMtime(i) = OutMtime(j) =>
                KeyPos(seen, output[i].normalized_page_url)
                  < KeyPos(seen, output[j].normalized_page_url)
    /\ Provenance

C5_Witness ==
  /\ pc = "done"
  /\ Len(output) = 2
  /\ OutMtime(1) = OutMtime(2)
  /\ output[1].source_file # output[2].source_file
  /\ StrLess(output[2].normalized_page_url, output[1].normalized_page_url)

\* C6: a row whose primary URL is missing, empty or whitespace only is not
\* stored: it adds one to skipped_missing_page_url and leaves the store and
\* the duplicates counter as they are.
C6_BlankRowSkipped ==
  [][ (pc = "rows" /\ ri <= Len(CurFile.rows) /\ IsBlank(CurFile.rows[ri][DEDUP_COL]))
        => /\ skipped_missing_page_url' = skipped_missing_page_url + 1
           /\ seen' = seen
           /\ duplicates' = duplicates ]_vars

C6_Witness ==
  /\ pc = "rows"
  /\ ri > 1
  /\ CurFile.rows[ri - 1][DEDUP_COL] = <<" ">>
  /\ skipped_missing_page_url > 0
  /\ seen # << >>

\* ---- the counters of a merge ----

\* the rows "for row in reader" goes through in a file: none in a file
\* without the DEDUP_COL column
RowsOf(f) == IF IsRead(f) THEN Len(files[f].rows) ELSE 0

\* the rows gone through in the first n files of csv_files
RECURSIVE RowsBefore(_)
RowsBefore(n) == IF n = 0 THEN 0 ELSE RowsBefore(n - 1) + RowsOf(csv_files[n])

\* the rows the loop has gone through so far: those of the files before
\* csv_files[fi] and the rows before ri of the file being read
RowsDone ==
  (IF fi = 0 THEN 0 ELSE RowsBefore(fi - 1)) + (IF pc = "rows" THEN ri - 1 ELSE 0)

\* the listed files that lack the DEDUP_COL column and have rows
FilesPassedOver ==
  { f \in Range(csv_files) : ~IsRead(f) /\ files[f].rows # << >> }

\* C29: after every row processed by merge_csvs, total_rows is the number
\* of keys kept plus duplicates plus skipped_missing_page_url, and the rows
\* of a file passed over for lacking the dedup column are counted in none
\* of the four: total_rows counts the rows of the other files only.
C29_CounterConservation ==
  /\ total_rows = Len(seen) + duplicates + skipped_missing_page_url
  /\ total_rows = RowsDone
  /\ \A i \in 1..Len(seen) : IsRead(seen[i].fname)

C29_Witness ==
  /\ pc = "done"
  /\ FilesPassedOver # { }
  /\ total_rows = 3
  /\ Len(seen) = 1
  /\ duplicates = 1
  /\ skipped_missing_page_url = 1

\* ------------------------------------------------------------------------
\* SpecFetch: fetch_with_retries (scripts/missav.py 226-268,
\*                                scripts/scraper.py 72-118)
\* ------------------------------------------------------------------------

\* the greatest retries argument of a call
MaxRetries == 5

\* RETRIES of scraper.py, the default of retries in missav.py
RETRIES == 3

\* base_delay, in milliseconds
BASE_DELAY == 600

\* max_delay of missav.py, in milliseconds
MAX_DELAY == 6000

\* the cap of the sleep of scraper.py, in milliseconds
SCRAPER_MAX_DELAY == 4000

\* the jitter 0.8 + 0.4 * random.random(), in thousandths
JitterFactors == { 800, 1199 }

\* texts of a response, as sequences of tokens
PageText == << "<html>" >>

ChallengeText == << "cf-browser-verification" >>

\* what the network does with one request
Responses ==
  { [kind |-> "response", status |-> 200, text |-> PageText],
    [kind |-> "response", status |-> 200, text |-> ChallengeText],
    [kind |-> "response", status |-> 200, text |-> << >>],
    [kind |-> "response", status |-> 503, text |-> PageText],
    [kind |-> "timeout", status |-> 0, text |-> << >>],
    [kind |-> "cancelled", status |-> 0, text |-> << >>] }

\* Python's truth value of an Optional[str]
Truthy(h) == h # NoneVal /\ h # << >>

\* a mutant of Fetcher_fetch: no "except Exception", a timeout propagates
Fetcher_fetch_NoCatch(crawler, resp) ==
  IF resp.kind = "cancelled" THEN [ret |-> NoneVal, exc |-> "CancelledError"]
  ELSE IF resp.kind # "response" THEN [ret |-> NoneVal, exc |-> "TimeoutError"]
  ELSE IF resp.status # 200 THEN [ret |-> NoneVal, exc |-> "none"]
  ELSE [ret |-> resp.text, exc |-> "none"]

\* Fetcher.fetch(url): the text of a 200 response (of a successful
\* crawler run), None for every other outcome; CancelledError is re-raised
Fetcher_fetch(crawler, resp) ==
  IF resp.kind = "cancelled" THEN [ret |-> NoneVal, exc |-> "CancelledError"]
  ELSE IF resp.kind # "response" THEN [ret |-> NoneVal, exc |-> "none"]
  ELSE IF crawler
    THEN \* res.success is the success of the navigation; res.html or ""
         IF resp.status # 200 THEN [ret |-> NoneVal, exc |-> "none"]
         ELSE [ret |-> resp.text, exc |-> "none"]
  ELSE IF resp.status # 200 THEN [ret |-> NoneVal, exc |-> "none"]
  ELSE [ret |-> resp.text, exc |-> "none"]

\* fetch_aiohttp(session, url) of scraper.py: as above, and a challenge
\* page is rejected
fetch_aiohttp(resp) ==
  IF resp.kind = "cancelled" THEN [ret |-> NoneVal, exc |-> "CancelledError"]
  ELSE IF resp.kind # "response" THEN [ret |-> NoneVal, exc |-> "none"]
  ELSE IF resp.status # 200 THEN [ret |-> NoneVal, exc |-> "none"]
  ELSE IF "cf-browser-verification" \in Range(resp.text)
    THEN [ret |-> NoneVal, exc |-> "none"]
  ELSE [ret |-> resp.text, exc |-> "none"]

\* fetch_crawl4ai(url) of scraper.py: res.html when there is one, None on an
\* Exception; CancelledError is no Exception and passes through
fetch_crawl4ai(resp) ==
  IF resp.kind = "cancelled" THEN [ret |-> NoneVal, exc |-> "CancelledError"]
  ELSE IF resp.kind # "response" THEN [ret |-> NoneVal, exc |-> "none"]
  ELSE IF resp.text # << >> THEN [ret |-> resp.text, exc |-> "none"]
  ELSE [ret |-> NoneVal, exc |-> "none"]

Min(a, b) == IF a < b THEN a ELSE b

\* a mutant of BackoffDelay: the delay is not capped
BackoffDelayNoCap(k, cap) == BASE_DELAY * (2 ^ k)

\* min(max_delay, base_delay * (2 ** attempt))
BackoffDelay(k, cap) == Min(cap, BASE_DELAY * (2 ^ k))

DelayCap == IF impl = "missav" THEN MAX_DELAY ELSE SCRAPER_MAX_DELAY

\* if attempt < retries
MaySleep(k, n) == k < n

\* the response is a page with status 200 that holds the challenge marker
IsChallenge(resp) ==
  resp.kind = "response" /\ resp.status = 200 /\ "cf-browser-verification" \in Range(resp.text)

FetchEvent(h, resp) ==
  [ev |-> "fetch", html |-> h, delay |-> 0, slept |-> 0,
   cancelled |-> resp.kind = "cancelled", challenge |-> IsChallenge(resp)]

SleepEvent(d, j, cancelled) ==
  [ev |-> "sleep", html |-> NoneVal, delay |-> d, slept |-> (d * j) \div 1000,
   cancelled |-> cancelled, challenge |-> FALSE]

FallbackEvent(h, resp) ==
  [ev |-> "fallback", html |-> h, delay |-> 0, slept |-> 0,
   cancelled |-> resp.kind = "cancelled", challenge |-> IsChallenge(resp)]

\* the call of get_cf_cookies: whether it came back, and with cookies
BootstrapEvent(resp) ==
  [ev |-> "bootstrap", html |-> NoneVal, delay |-> 0, slept |-> 0,
   cancelled |-> FALSE, challenge |-> FALSE,
   cookies |-> resp.kind = "response" /\ resp.status = 200 /\ resp.text = PageText]

\* a mutant of IsLastChance: the fallback is taken after any failed attempt
IsLastChanceAlways(k, n) == TRUE

\* if attempt == RETRIES
IsLastChance(k, n) == k = n

InitFetch ==
  /\ IdleNorm
  /\ IdleMerge
  /\ IdleRest
  /\ \/ impl = "missav" /\ retries \in 0..MaxRetries /\ use_crawl4ai \in BOOLEAN
        /\ fpc = "fetch"
     \/ impl = "scraper" /\ retries = RETRIES /\ use_crawl4ai = FALSE
        /\ fpc = "bootstrap"
  /\ attempt = 0
  /\ html = NoneVal
  /\ result = NoneVal
  /\ exc = "none"
  /\ log = << >>

\* main() of scraper.py up to the first request: cookies = await
\* get_cf_cookies(...), which has no handler: when the crawler raises, main
\* ends there and no page is requested
Bootstrap ==
  /\ fpc = "bootstrap"
  /\ \E resp \in Responses :
       IF resp.kind = "response"
         THEN /\ log' = Append(log, BootstrapEvent(resp))
              /\ fpc' = "fetch"
         ELSE /\ log' = log
              /\ fpc' = "aborted"
  /\ UNCHANGED << impl, use_crawl4ai, retries, attempt, html, result, exc >>
  /\ UNCHANGED << normVars, mergeVars, restVars >>

\* html = await fetcher.fetch(url), and what follows up to the next await
\* or the return
Attempt ==
  /\ fpc = "fetch"
  /\ attempt <= retries
  /\ \E resp \in Responses :
       LET out == IF impl = "missav" THEN Fetcher_fetch(use_crawl4ai, resp)
                  ELSE fetch_aiohttp(resp)
       IN IF out.exc # "none"
            THEN /\ exc' = out.exc
                 /\ fpc' = "raised"
                 /\ log' = Append(log, FetchEvent(NoneVal, resp))
                 /\ UNCHANGED << html, result >>
            ELSE /\ html' = out.ret
                 /\ log' = Append(log, FetchEvent(out.ret, resp))
                 /\ UNCHANGED exc
                 /\ IF Truthy(out.ret)
                      THEN result' = out.ret /\ fpc' = "returned"
                    ELSE IF impl = "missav"
                      THEN IF MaySleep(attempt, retries)
                             THEN fpc' = "sleep" /\ UNCHANGED result
                             ELSE result' = NoneVal /\ fpc' = "returned"
                    ELSE IF IsLastChance(attempt, retries)
                      THEN fpc' = "fallback" /\ UNCHANGED result
                      ELSE fpc' = "sleep" /\ UNCHANGED result
  /\ UNCHANGED << impl, use_crawl4ai, retries, attempt >>
  /\ UNCHANGED << normVars, mergeVars, restVars >>

\* await asyncio.sleep(delay) runs to its end: the next turn of the loop,
\* "return None" when the range is exhausted
Sleep ==
  /\ fpc = "sleep"
  /\ \E j \in JitterFactors :
       log' = Append(log, SleepEvent(BackoffDelay(attempt, DelayCap), j, FALSE))
  /\ attempt' = attempt + 1
  /\ IF attempt + 1 <= retries
       THEN fpc' = "fetch" /\ UNCHANGED result
       ELSE fpc' = "returned" /\ result' = NoneVal
  /\ UNCHANGED << impl, use_crawl4ai, retries, html, exc >>
  /\ UNCHANGED << normVars, mergeVars, restVars >>

\* the task is cancelled while it sleeps
SleepCancelled ==
  /\ fpc = "sleep"
  /\ \E j \in JitterFactors :
       log' = Append(log, SleepEvent(BackoffDelay(attempt, DelayCap), j, TRUE))
  /\ exc' = "CancelledError"
  /\ fpc' = "raised"
  /\ UNCHANGED << impl, use_crawl4ai, retries, attempt, html, result >>
  /\ UNCHANGED << normVars, mergeVars, restVars >>

\* return await fetch_crawl4ai(url), the last chance of scraper.py
Fallback ==
  /\ fpc = "fallback"
  /\ \E resp \in Responses :
       LET out == fetch_crawl4ai(resp)
       IN /\ log' = Append(log, FallbackEvent(out.ret, resp))
          /\ IF out.exc # "none"
               THEN exc' = out.exc /\ fpc' = "raised" /\ UNCHANGED result
               ELSE result' = out.ret /\ fpc' = "returned" /\ UNCHANGED exc
  /\ UNCHANGED << impl, use_crawl4ai, retries, attempt, html >>
  /\ UNCHANGED << normVars, mergeVars, restVars >>

NextFetch == Bootstrap \/ Attempt \/ Sleep \/ SleepCancelled \/ Fallback

SpecFetch == InitFetch /\ [][NextFetch]_vars

\* ---- the awaits of a call, read off the log ----

FetchIdx == { i \in 1..Len(log) : log[i].ev = "fetch" }

SleepIdx == { i \in 1..Len(log) : log[i].ev = "sleep" }

\* C9: fetch_with_retries of missav.py makes at most retries+1 fetch
\* attempts, returns the first non-empty body without another attempt,
\* sleeps exactly once between two consecutive attempts and never after the
\* last one, and the delay before attempt k+1 (attempts counted from 0) is,
\* before the jitter, min(max_delay, base_delay * 2^k).
C9_RetrySchedule ==
  impl = "missav" =>
    /\ Cardinality(FetchIdx) <= retries + 1
    /\ \A i \in FetchIdx :
         Truthy(log[i].html) => (i = Len(log) /\ fpc = "returned" /\ result = log[i].html)
    /\ \A i \in 1..Len(log) : (log[i].ev = "fetch") <=> (i % 2 = 1)
    /\ \A i \in 1..Len(log) : (log[i].ev = "sleep") <=> (i % 2 = 0)
    /\ fpc = "returned" => (log # << >> /\ log[Len(log)].ev = "fetch")
    /\ (fpc = "returned" /\ Cardinality(FetchIdx) = retries + 1)
         => Cardinality(SleepIdx) = retries
    /\ \A i \in SleepIdx :
         LET k == (i \div 2) - 1
         IN log[i].delay = (IF BASE_DELAY * (2 ^ k) < MAX_DELAY
                              THEN BASE_DELAY * (2 ^ k) ELSE MAX_DELAY)

C9_Witness ==
  /\ impl = "missav"
  /\ fpc = "returned"
  /\ Truthy(result)
  /\ retries = MaxRetries
  /\ Cardinality(FetchIdx) = retries + 1
  /\ \E i \in SleepIdx : log[i].delay = MAX_DELAY

FallbackIdx == { i \in 1..Len(log) : log[i].ev = "fallback" }

BootstrapIdx == { i \in 1..Len(log) : log[i].ev = "bootstrap" }

\* C11: a response with status 200 whose body holds the challenge marker is a
\* failed attempt: its body is never handed back as content, by the primary
\* attempt or by the fallback, and the call goes on as after a transport
\* failure (it sleeps and retries, or falls back, or returns None).
C11_ChallengeIsFailure ==
  /\ \A i \in 1..Len(log) : log[i].challenge => ~Truthy(log[i].html)
  /\ fpc = "returned" => "cf-browser-verification" \notin Range(result)

\* C12: in scraper.py the fallback backend is called for a URL only after
\* RETRIES+1 failed attempts of the primary backend, at most once, and never
\* after a primary attempt that succeeded; the bootstrap call has come back
\* before the first request of the primary backend. missav.py has no
\* fallback.
C12_FallbackLast ==
  /\ Cardinality(FallbackIdx) <= 1
  /\ impl = "missav" => FallbackIdx = { } /\ BootstrapIdx = { }
  /\ \A i \in FallbackIdx :
       /\ Cardinality({ j \in FetchIdx : j < i }) = RETRIES + 1
       /\ \A j \in FetchIdx : j < i /\ ~Truthy(log[j].html)
  /\ (\E j \in FetchIdx : Truthy(log[j].html)) => (FallbackIdx = { } /\ fpc # "fallback")
  /\ fpc = "fallback" => Cardinality(FetchIdx) = RETRIES + 1
  /\ impl = "scraper" =>
       /\ Cardinality(BootstrapIdx) <= 1
       /\ (FetchIdx # { } \/ fpc \in { "fetch", "sleep", "fallback", "returned", "raised" })
            => BootstrapIdx = { 1 }
       /\ fpc = "aborted" => log = << >>

C12_Witness ==
  /\ impl = "scraper"
  /\ fpc = "returned"
  /\ BootstrapIdx = { 1 }
  /\ log[1].cookies
  /\ Cardinality(FetchIdx) = RETRIES + 1
  /\ \E i \in FallbackIdx : i = Len(log) /\ Truthy(log[i].html) /\ result = log[i].html

\* ------------------------------------------------------------------------
\* Listing pages (scripts/missav.py): a parsed document is the sequence of
\* its elements in document order
\* ------------------------------------------------------------------------

\* sub in s
Contains(s, sub) ==
  \E i \in 0..(Len(s) - Len(sub)) : SubSeq(s, i + 1, i + Len(sub)) = sub

\* position of the last c in s, 0 when absent
RFind(s, c) ==
  IF \E i \in 1..Len(s) : s[i] = c
    THEN CHOOSE i \in 1..Len(s) : s[i] = c /\ \A j \in (i + 1)..Len(s) : s[j] # c
    ELSE 0

\* urljoin(base, href) for a base that is an absolute path and an href that
\* is empty, an absolute path or a relative name
urljoin(base, href) ==
  IF href = << >> THEN base
  ELSE IF href[1] = "/" THEN href
  ELSE Upto(base, RFind(base, "/")) \o href

\* an element: <link> or <a> with its attributes (Absent: no such
\* attribute), the kind of pagination container it lies in, its text; or a
\* div.thumbnail card with the href of its first a[href]
Elem(tag, rel, aria, class, inside, text, href) ==
  [tag |-> tag, rel |-> rel, aria |-> aria, class |-> class, inside |-> inside,
   text |-> text, href |-> href]

HasHref(e) == e.href # Absent

\* link[rel="next"][href]
IsLinkNext(e) == e.tag = "link" /\ e.rel = <<"n", "e", "x", "t">> /\ HasHref(e)

\* a[rel="next"][href]
IsARelNext(e) == e.tag = "a" /\ e.rel = <<"n", "e", "x", "t">> /\ HasHref(e)

\* a[aria-label*="Next"][href], a[aria-label*="next"][href]
IsAAriaNext(e) ==
  /\ e.tag = "a"
  /\ e.aria # Absent
  /\ \/ Contains(e.aria, <<"N", "e", "x", "t">>)
     \/ Contains(e.aria, <<"n", "e", "x", "t">>)
  /\ HasHref(e)

\* .pagination a.next[href], nav[aria-label*="pagination"] a.next[href]
IsAClassNext(e) ==
  /\ e.tag = "a"
  /\ e.class = <<"n", "e", "x", "t">>
  /\ e.inside \in { "pagination", "nav" }
  /\ HasHref(e)

\* the texts of a next link; the characters U+203A and U+00BB are written
\* by their entity names
NextTexts ==
  { <<"n", "e", "x", "t">>, <<"o", "l", "d", "e", "r">>, <<"rsaquo">>, <<"raquo">>,
    <<"n", "e", "x", "t", " ", "rsaquo">>, <<"n", "e", "x", "t", " ", "raquo">> }

\* a in soup.select("a[href]") with (a.get_text() or "").strip().lower() in the set
IsATextNext(e) ==
  e.tag = "a" /\ HasHref(e) /\ Lower(StripWs(e.text)) \in NextTexts

\* soup.select_one(selector): the first element in document order that
\* matches, 0 when none does
SelectOne(doc, Matches(_)) ==
  IF \E i \in 1..Len(doc) : Matches(doc[i])
    THEN CHOOSE i \in 1..Len(doc) : Matches(doc[i]) /\ \A j \in 1..(i - 1) : ~Matches(doc[j])
    ELSE 0

\* urljoin(base_url, tag["href"].strip())
LinkOf(doc, i, base_url) == urljoin(base_url, StripWs(doc[i].href))

\* a mutant of find_next_page_url: the text heuristic is tried first
find_next_page_url_TextFirst(doc, base_url) ==
  IF SelectOne(doc, IsATextNext) # 0 THEN LinkOf(doc, SelectOne(doc, IsATextNext), base_url)
  ELSE IF SelectOne(doc, IsLinkNext) # 0 THEN LinkOf(doc, SelectOne(doc, IsLinkNext), base_url)
  ELSE IF SelectOne(doc, IsARelNext) # 0 THEN LinkOf(doc, SelectOne(doc, IsARelNext), base_url)
  ELSE IF SelectOne(doc, IsAAriaNext) # 0 THEN LinkOf(doc, SelectOne(doc, IsAAriaNext), base_url)
  ELSE IF SelectOne(doc, IsAClassNext) # 0 THEN LinkOf(doc, SelectOne(doc, IsAClassNext), base_url)
  ELSE NoneVal

\* find_next_page_url(html, base_url)
find_next_page_url(doc, base_url) ==
  LET link_next    == SelectOne(doc, IsLinkNext)
      a_rel_next   == SelectOne(doc, IsARelNext)
      a_aria_next  == SelectOne(doc, IsAAriaNext)
      a_class_next == SelectOne(doc, IsAClassNext)
      a_text       == SelectOne(doc, IsATextNext)
  IN IF link_next # 0 THEN LinkOf(doc, link_next, base_url)
     ELSE IF a_rel_next # 0 THEN LinkOf(doc, a_rel_next, base_url)
     ELSE IF a_aria_next # 0 THEN LinkOf(doc, a_aria_next, base_url)
     ELSE IF a_class_next # 0 THEN LinkOf(doc, a_class_next, base_url)
     ELSE IF a_text # 0 THEN LinkOf(doc, a_text, base_url)
     ELSE NoneVal

\* the cards of extract_posts that add a post: the card has an a[href], the
\* stripped href is not empty and contains "/en/"
IsPostCard(e) ==
  /\ e.tag = "card"
  /\ HasHref(e)
  /\ StripWs(e.href) # << >>
  /\ Contains(StripWs(e.href), <<"/", "e", "n", "/">>)

\* insertion into a list sorted by Python's < on str
RECURSIVE InsertStr(_, _)
InsertStr(sq, x) ==
  IF sq = << >> THEN << x >>
  ELSE IF StrLess(x, sq[1]) THEN << x >> \o sq
  ELSE << sq[1] >> \o InsertStr(Tail(sq), x)

\* sorted(a set of str)
RECURSIVE SortedStrs(_)
SortedStrs(S) ==
  IF S = { } THEN << >>
  ELSE LET x == CHOOSE y \in S : TRUE
       IN InsertStr(SortedStrs(S \ { x }), x)

\* extract_posts(html), before the sort: the set of hrefs
PostSet(doc) == { StripWs(doc[i].href) : i \in { j \in 1..Len(doc) : IsPostCard(doc[j]) } }

\* extract_posts(html)
extract_posts(doc) == SortedStrs(PostSet(doc))

\* ------------------------------------------------------------------------
\* crawl_listing_posts (scripts/missav.py)
\* ------------------------------------------------------------------------

\* the greatest max_pages
MaxPages == 3

\* the listing URLs of the site, one more than the greatest page cap:
\* "/a", "/b", ...
ListingUrls == { <<"/", LowerChars[i]>> : i \in 1..(MaxPages + 1) }

PostCard(href) == Elem("card", Absent, Absent, Absent, "none", << >>, href)

NextAnchor(href) ==
  Elem("a", <<"n", "e", "x", "t">>, Absent, Absent, "none", <<"2">>, href)

\* the listing pages the site can serve: with or without posts, with a
\* next link to any listing URL (written as a path, one as a relative
\* name), with an empty href, or without a next link
CrawlDocs ==
  { << PostCard(<<"/", "e", "n", "/", "1">>), NextAnchor(t) >> : t \in ListingUrls }
    \cup { << PostCard(<<"/", "e", "n", "/", "2">>), NextAnchor(<<"b">>) >>,
           << PostCard(<<"/", "x", "/", "3">>), NextAnchor(<< >>) >>,
           << PostCard(<<"e", "n", "/", "3">>), PostCard(<<" ", "/", "e", "n", "/", "3">>) >>,
           << >> }

\* a mutant of Continue: no cycle guard
ContinueNoGuard(u, pages, n, cap) == Truthy(u) /\ n < cap

\* while url and url not in seen_pages and page_num < max_pages
Continue(u, pages, n, cap) == Truthy(u) /\ u \notin pages /\ n < cap

\* a mutant of NextAttempt: the count of failed attempts starts over
NextAttemptReset(k) == IF k = 0 THEN 1 ELSE 0

\* for attempt in range(retries + 1): the next value of the loop variable
NextAttempt(k) == k + 1

\* a mutant of crawl_return: nothing is returned
crawl_return_Empty(posts) == << >>

\* return sorted(all_posts)
crawl_return(posts) == SortedStrs(posts)

Visit(u) == [url |-> u, state |-> "pending", html |-> NoneVal]

InitCrawl ==
  /\ IdlePipe
  /\ IdleNorm
  /\ IdleMerge
  /\ IdleFetch
  /\ IdleNext
  /\ IdleDec
  /\ IdleEx
  /\ max_pages \in 0..MaxPages
  /\ cur_url \in ListingUrls \cup { << >> }
  /\ seen_pages = { }
  /\ page_num = 0
  /\ all_posts = { }
  /\ visits = << >>
  /\ tries = 0
  /\ page_html = NoneVal
  /\ crawl_result = << >>
  /\ cpc = "loop"

\* the loop test holds: seen_pages.add(url), page_num += 1, and the call of
\* fetch_with_retries begins
CrawlVisit ==
  /\ cpc = "loop"
  /\ Continue(cur_url, seen_pages, page_num, max_pages)
  /\ seen_pages' = seen_pages \cup { cur_url }
  /\ page_num' = page_num + 1
  /\ visits' = Append(visits, Visit(cur_url))
  /\ tries' = 0
  /\ cpc' = "fetch"
  /\ UNCHANGED << max_pages, cur_url, all_posts, page_html, crawl_result >>
  /\ UNCHANGED << normVars, mergeVars, fetchVars, nextVars, decVars, exVars, pipeVars >>

\* the loop test fails: return sorted(all_posts)
CrawlReturn ==
  /\ cpc = "loop"
  /\ ~Continue(cur_url, seen_pages, page_num, max_pages)
  /\ crawl_result' = crawl_return(all_posts)
  /\ cpc' = "done"
  /\ UNCHANGED << max_pages, cur_url, seen_pages, page_num, all_posts, visits, tries,
                  page_html >>
  /\ UNCHANGED << normVars, mergeVars, fetchVars, nextVars, decVars, exVars, pipeVars >>

\* an attempt of fetch_with_retries comes back with a page: it is returned
CrawlFetchOk ==
  /\ cpc = "fetch"
  /\ tries <= RETRIES
  /\ \E doc \in CrawlDocs :
       /\ page_html' = doc
       /\ visits' = [visits EXCEPT ![Len(visits)] = [@ EXCEPT !.state = "ok", !.html = doc]]
  /\ cpc' = "parse"
  /\ UNCHANGED << max_pages, cur_url, seen_pages, page_num, all_posts, tries, crawl_result >>
  /\ UNCHANGED << normVars, mergeVars, fetchVars, nextVars, decVars, exVars, pipeVars >>

\* an attempt fails (None or an empty body): the sleep and the next attempt,
\* or None is returned after the last one
CrawlFetchFail ==
  /\ cpc = "fetch"
  /\ tries <= RETRIES
  /\ IF MaySleep(tries, RETRIES)
       THEN /\ tries' = NextAttempt(tries)
            /\ UNCHANGED << page_html, visits, cpc >>
       ELSE /\ page_html' = NoneVal
            /\ visits' = [visits EXCEPT ![Len(visits)] = [@ EXCEPT !.state = "failed"]]
            /\ cpc' = "parse"
            /\ UNCHANGED tries
  /\ UNCHANGED << max_pages, cur_url, seen_pages, page_num, all_posts, crawl_result >>
  /\ UNCHANGED << normVars, mergeVars, fetchVars, nextVars, decVars, exVars, pipeVars >>

\* if not html: break, return sorted(all_posts)
CrawlBreak ==
  /\ cpc = "parse"
  /\ page_html = NoneVal
  /\ crawl_result' = crawl_return(all_posts)
  /\ cpc' = "done"
  /\ UNCHANGED << max_pages, cur_url, seen_pages, page_num, all_posts, visits, tries,
                  page_html >>
  /\ UNCHANGED << normVars, mergeVars, fetchVars, nextVars, decVars, exVars, pipeVars >>

\* the posts of the page are added, url = find_next_page_url(html, url)
CrawlParse ==
  /\ cpc = "parse"
  /\ page_html # NoneVal
  /\ LET posts == extract_posts(page_html)
     IN all_posts' = all_posts \cup { urljoin(cur_url, posts[i]) : i \in 1..Len(posts) }
  /\ cur_url' = find_next_page_url(page_html, cur_url)
  /\ cpc' = "loop"
  /\ UNCHANGED << max_pages, seen_pages, page_num, visits, tries, page_html, crawl_result >>
  /\ UNCHANGED << normVars, mergeVars, fetchVars, nextVars, decVars, exVars, pipeVars >>

NextCrawl ==
  CrawlVisit \/ CrawlReturn \/ CrawlFetchOk \/ CrawlFetchFail \/ CrawlBreak \/ CrawlParse

SpecCrawl == InitCrawl /\ [][NextCrawl]_vars

\* the event loop runs the coroutine and every fetch comes back
SpecCrawlLive == SpecCrawl /\ WF_vars(NextCrawl)

\* C13: in every run of crawl_listing_posts no listing URL is passed to the
\* fetch service more than once, and the number of listing pages fetched
\* never exceeds max_pages, whatever next links the pages have.
C13_NoRefetchAndCap ==
  /\ \A i, j \in 1..Len(visits) : visits[i].url = visits[j].url => i = j
  /\ Len(visits) <= max_pages
  /\ page_num = Len(visits)
  /\ seen_pages = { visits[i].url : i \in 1..Len(visits) }

C13_Witness ==
  /\ cpc = "done"
  /\ Len(visits) = 2
  /\ max_pages = MaxPages
  /\ cur_url = visits[1].url
  /\ visits[2].state = "ok"

\* C14: the listing walk always terminates: when every fetch comes back,
\* crawl_listing_posts returns, for cyclic next links and for chains of
\* ever new next links alike.
C14_Terminates == <>(cpc = "done")

C14_Witness ==
  /\ cpc = "done"
  /\ Len(visits) = MaxPages
  /\ max_pages = MaxPages
  /\ Truthy(cur_url)
  /\ cur_url \notin seen_pages

\* the posts of the pages fetched, as absolute URLs
PostsOfVisits ==
  UNION { { urljoin(visits[i].url, p) : p \in PostSet(visits[i].html) } :
            i \in { j \in 1..Len(visits) : visits[j].state = "ok" } }

\* C15: when the fetch of a listing page has failed after all retries, no
\* further listing page is fetched, the walk returns (it raises nothing),
\* and the list returned holds the item URLs of the pages fetched before.
C15_FailureStopsWalk ==
  /\ \A i \in 1..Len(visits) : visits[i].state = "failed" => i = Len(visits)
  /\ (visits # << >> /\ visits[Len(visits)].state = "failed") =>
       /\ cpc \in { "parse", "done" }
       /\ page_html = NoneVal
       /\ all_posts = PostsOfVisits
       /\ cpc = "done" =>
            /\ Len(crawl_result) = Cardinality(PostsOfVisits)
            /\ Range(crawl_result) = PostsOfVisits

C15_Witness ==
  /\ cpc = "done"
  /\ Len(visits) = 2
  /\ visits[2].state = "failed"
  /\ Len(crawl_result) = 1

\* ------------------------------------------------------------------------
\* decode_packed_eval (scripts/missav.py). A payload is a sequence of
\* characters; "eval(function(p,a,c,k,e,d", "return p}" and ".split" stand
\* for their characters where they occur as a whole.
\* ------------------------------------------------------------------------

BaseDigits ==
  << "0", "1", "2", "3", "4", "5", "6", "7", "8", "9",
     "a", "b", "c", "d", "e", "f", "g", "h", "i", "j", "k", "l", "m",
     "n", "o", "p", "q", "r", "s", "t", "u", "v", "w", "x", "y", "z" >>

\* chr(ord("a") + d - 10) for d from 36 on: the characters after "z"
AfterZ == << "{", "|", "}", "~" >>

IsDigit(c) == \E i \in 1..10 : BaseDigits[i] = c

DigitVal(c) == (CHOOSE i \in 1..10 : BaseDigits[i] = c) - 1

\* \w of re, on the characters of the model
IsWordChar(c) == c = "_" \/ IsAlpha(c) \/ IsDigit(c)

\* position of the first occurrence of sub in s from position from on, 0
\* when there is none: s.find(sub, from - 1) + 1
FindSub(s, sub, from) ==
  LET hits == { i \in from..(Len(s) - Len(sub) + 1) : SubSeq(s, i, i + Len(sub) - 1) = sub }
  IN IF hits = { } THEN 0 ELSE CHOOSE i \in hits : \A j \in hits : i <= j

\* str(d) for a natural number
RECURSIVE NatStr(_)
NatStr(d) == IF d < 10 THEN << BaseDigits[d + 1] >> ELSE NatStr(d \div 10) \o << BaseDigits[(d % 10) + 1] >>

\* str(d) if d < 10 else chr(ord("a") + d - 10)
DigitStr(d) ==
  IF d < 10 THEN NatStr(d)
  ELSE IF d < 36 THEN << BaseDigits[d + 1] >>
  ELSE IF d - 35 <= Len(AfterZ) THEN << AfterZ[d - 35] >>
  ELSE << "chr" >>

\* the loop of int_to_base for a base of 2 or more
RECURSIVE BaseDigitsOf(_, _)
BaseDigitsOf(n, base) ==
  IF n = 0 THEN << >>
  ELSE BaseDigitsOf(n \div base, base) \o DigitStr(n % base)

\* int_to_base(n, base): the numeral, or the way the call ends otherwise.
\* With base 0 the modulo raises; with base 1 n //= base leaves n as it is
\* and the loop does not end; with a negative base Python's floor division
\* makes n negative after one turn.
int_to_base(n, base) ==
  IF n = 0 THEN [ret |-> << "0" >>, exc |-> "none"]
  ELSE IF base = 0 THEN [ret |-> NoneVal, exc |-> "ZeroDivisionError"]
  ELSE IF base = 1 THEN [ret |-> NoneVal, exc |-> "hang"]
  ELSE IF base < 0
    THEN LET r == n % (0 - base)
         IN [ret |-> IF r = 0 THEN << "0" >> ELSE << "-" >> \o NatStr((0 - base) - r),
             exc |-> "none"]
  ELSE [ret |-> BaseDigitsOf(n, base), exc |-> "none"]

\* position i of s is a backslash that opens an escape: the backslashes of a
\* run pair up from its left end
EscapeAt(s, i) ==
  /\ i \in 1..Len(s)
  /\ s[i] = "\\"
  /\ LET others == { j \in 1..(i - 1) : s[j] # "\\" }
         run    == IF others = { } THEN 1
                   ELSE 1 + (CHOOSE j \in others : \A x \in others : x <= j)
     IN (i - run) % 2 = 0

\* bytes.decode("unicode_escape") on the characters of the model: after a
\* backslash, a backslash or a quote stands for itself, any other character
\* of the model is kept with its backslash; a backslash at the end raises
UnicodeEscape(s) ==
  LET dropped(i) == EscapeAt(s, i) /\ i < Len(s) /\ s[i + 1] \in { "\\", "'", "\"" }
      kept       == SelectSeq([i \in 1..Len(s) |-> i], LAMBDA i : ~dropped(i))
  IN IF EscapeAt(s, Len(s)) THEN [ret |-> NoneVal, exc |-> "UnicodeDecodeError"]
     ELSE [ret |-> [j \in 1..Len(kept) |-> s[kept[j]]], exc |-> "none"]

IsQuote(c) == c = "'" \/ c = "\""

\* unquote_js_string(s)
unquote_js_string(s) ==
  IF Len(s) >= 2 /\ IsQuote(s[1]) /\ s[Len(s)] = s[1]
    THEN UnicodeEscape(SubSeq(s, 2, Len(s) - 1))
    ELSE UnicodeEscape(s)

\* s.strip("'\"")
RECURSIVE StripQuotes(_)
StripQuotes(s) ==
  IF s = << >> THEN s
  ELSE IF IsQuote(s[1]) THEN StripQuotes(Tail(s))
  ELSE IF IsQuote(s[Len(s)]) THEN StripQuotes(Upto(s, Len(s) - 1))
  ELSE s

\* the scan for the parenthesis that closes the call: the position after
\* it, 0 when the chunk ends before depth is 0. After the character at j
\* the depth is the one at the start, plus the "(" and minus the ")" met.
CloseScan(chunk, i, depth) ==
  LET opened(j) == Cardinality({ x \in i..j : chunk[x] = "(" })
      closed(j) == Cardinality({ x \in i..j : chunk[x] = ")" })
      ends      == { j \in i..Len(chunk) : depth + opened(j) - closed(j) = 0 }
  IN IF depth = 0 THEN i
     ELSE IF ends = { } THEN 0
     ELSE (CHOOSE j \in ends : \A x \in ends : j <= x) + 1

\* one turn of the loop "for ch in args_str"
ScanStep(st, ch) ==
  LET keep == [st EXCEPT !.cur = Append(st.cur, ch)]
  IN IF st.esc THEN [keep EXCEPT !.esc = FALSE]
     ELSE IF ch = "\\" THEN [keep EXCEPT !.esc = TRUE]
     ELSE IF ch = "'" /\ ~st.in_dq THEN [keep EXCEPT !.in_sq = ~st.in_sq]
     ELSE IF ch = "\"" /\ ~st.in_sq THEN [keep EXCEPT !.in_dq = ~st.in_dq]
     ELSE IF ch = "(" /\ ~st.in_sq /\ ~st.in_dq
       THEN [keep EXCEPT !.paren_depth = st.paren_depth + 1]
     ELSE IF ch = ")" /\ ~st.in_sq /\ ~st.in_dq
       THEN [keep EXCEPT !.paren_depth = st.paren_depth - 1]
     ELSE IF ch = "," /\ ~st.in_sq /\ ~st.in_dq /\ st.paren_depth = 0
       THEN [st EXCEPT !.parts = Append(st.parts, StripWs(st.cur)), !.cur = << >>]
     ELSE keep

\* the loop "for ch in args_str" over the characters lo..hi, in order: the
\* first half of the range, then the second half from the state it leaves
RECURSIVE SplitArgs(_, _, _, _)
SplitArgs(args_str, lo, hi, st) ==
  IF lo > hi THEN st
  ELSE IF lo = hi THEN ScanStep(st, args_str[lo])
  ELSE LET mid  == (lo + hi) \div 2
           left == SplitArgs(args_str, lo, mid, st)
       IN IF left.paren_depth \in Int
            THEN SplitArgs(args_str, mid + 1, hi, left)
            ELSE left

\* parts after the loop and "if cur: parts.append(...)"
ArgParts(args_str) ==
  LET st == SplitArgs(args_str, 1, Len(args_str),
                      [parts |-> << >>, cur |-> << >>, in_sq |-> FALSE, in_dq |-> FALSE,
                       esc |-> FALSE, paren_depth |-> 0])
  IN IF st.cur # << >> THEN Append(st.parts, StripWs(st.cur)) ELSE st.parts

\* the value of a run of decimal digits
RECURSIVE DigitsVal(_)
DigitsVal(s) ==
  IF s = << >> THEN 0 ELSE 10 * DigitsVal(Upto(s, Len(s) - 1)) + DigitVal(s[Len(s)])

\* int(s) on the characters of the model: an optional sign and decimal
\* digits; ok is FALSE where int raises ValueError
IntOf(s) ==
  LET body == IF s # << >> /\ s[1] \in { "-", "+" } THEN Tail(s) ELSE s
  IN IF body = << >> \/ \E i \in 1..Len(body) : ~IsDigit(body[i])
       THEN [ok |-> FALSE, val |-> 0]
       ELSE [ok |-> TRUE,
             val |-> IF s[1] = "-" THEN 0 - DigitsVal(body) ELSE DigitsVal(body)]

\* start_marker and marker
StartMarker == << "eval(function(p,a,c,k,e,d", ")" >>

ReturnMarker == << "return p}", "(" >>

\* payload[start:start + 20000]
CHUNK == 20000

\* re.match of ('...'|"...")\.split\('\\|'\) at the start of k_part. The
\* bar of the pattern is not escaped (the raw string gives an escaped
\* backslash, then a bar), so the pattern is an alternation: a quoted
\* string followed by .split('\ ; or the two characters ') . The second
\* alternative leaves group 1 unset.
KMatch(k_part) ==
  LET q    == IF k_part # << >> /\ IsQuote(k_part[1]) THEN k_part[1] ELSE "none"
      ends == { j \in 2..Len(k_part) :
                  /\ k_part[j] = q
                  /\ \A i \in 2..(j - 1) : k_part[i] = q => (i > 2 /\ k_part[i - 1] = "\\")
                  /\ Len(k_part) >= j + 4
                  /\ SubSeq(k_part, j + 1, j + 4) = << ".split", "(", "'", "\\" >> }
  IN IF ends # { }
       THEN [kind |-> "group",
             group |-> Upto(k_part, CHOOSE j \in ends : \A h \in ends : h <= j)]
     ELSE IF Len(k_part) >= 2 /\ k_part[1] = "'" /\ k_part[2] = ")"
       THEN [kind |-> "nogroup", group |-> NoneVal]
     ELSE [kind |-> "nomatch", group |-> NoneVal]

\* k_part.split(".split")[0].strip()
BeforeSplit(k_part) ==
  LET i == FindSub(k_part, << ".split" >>, 1)
  IN StripWs(IF i = 0 THEN k_part ELSE Upto(k_part, i - 1))

\* k_string of decode_packed_eval; unquote_js_string(None) raises TypeError
KString(k_part) ==
  LET m == KMatch(k_part)
  IN IF m.kind = "group" THEN unquote_js_string(m.group)
     ELSE IF m.kind = "nogroup" THEN [ret |-> NoneVal, exc |-> "TypeError"]
     ELSE unquote_js_string(BeforeSplit(k_part))

\* the replacement template of re.sub: two backslashes give one, any other
\* use of a backslash in the model's characters is an error of re
Template(val) ==
  LET kept == SelectSeq([i \in 1..Len(val) |-> i], LAMBDA i : ~EscapeAt(val, i))
  IN IF \E i \in 1..Len(val) : EscapeAt(val, i) /\ ~(i < Len(val) /\ val[i + 1] = "\\")
       THEN [ret |-> NoneVal, exc |-> "re.error"]
       ELSE [ret |-> [j \in 1..Len(kept) |-> val[kept[j]]], exc |-> "none"]

\* \b between the characters i-1 and i of text
WordBoundary(text, i) ==
  (i > 1 /\ IsWordChar(text[i - 1])) # (i <= Len(text) /\ IsWordChar(text[i]))

\* \b key \b matches at position i of text
MatchAt(text, i, key) ==
  /\ i + Len(key) - 1 <= Len(text)
  /\ SubSeq(text, i, i + Len(key) - 1) = key
  /\ WordBoundary(text, i)
  /\ WordBoundary(text, i + Len(key))

\* the scan of re.sub at position i: st.out is the text written so far,
\* st.next the position the scan goes on from
ReplaceStep(st, text, i, key, new) ==
  IF i < st.next THEN st
  ELSE IF MatchAt(text, i, key) THEN [out |-> st.out \o new, next |-> i + Len(key)]
  ELSE [out |-> Append(st.out, text[i]), next |-> i + 1]

\* the matches of \b key \b among the positions lo..hi are replaced from
\* left to right
RECURSIVE Replace(_, _, _, _, _, _)
Replace(text, lo, hi, key, new, st) ==
  IF lo > hi THEN st
  ELSE IF lo = hi THEN ReplaceStep(st, text, lo, key, new)
  ELSE LET mid  == (lo + hi) \div 2
           left == Replace(text, lo, mid, key, new, st)
       IN IF left.next > hi THEN left
          ELSE Replace(text, mid + 1, hi, key, new, left)

\* re.sub(r"\b" + re.escape(key) + r"\b", val, decoded)
re_sub(key, val, text) ==
  LET t == Template(val)
  IN IF t.exc # "none" THEN [ret |-> NoneVal, exc |-> t.exc]
     ELSE [ret |-> Replace(text, 1, Len(text), key, t.ret, [out |-> << >>, next |-> 1]).out,
           exc |-> "none"]

\* one turn of the loop of decode_packed_eval, for index n
Turn(r, n, a, k) ==
  LET key == int_to_base(n, a)
      val == IF n < Len(k) /\ k[n + 1] # << >> THEN k[n + 1] ELSE key.ret
  IN IF r.exc # "none" THEN r
     ELSE IF key.exc # "none" THEN [ret |-> NoneVal, exc |-> key.exc]
     ELSE re_sub(key.ret, val, r.ret)

\* the turns for the indices hi down to lo; a turn that raises ends the loop
RECURSIVE Turns(_, _, _, _, _)
Turns(r, hi, lo, a, k) ==
  IF hi < lo THEN r
  ELSE IF hi = lo THEN Turn(r, hi, a, k)
  ELSE LET mid   == (lo + hi) \div 2
           first == Turns(r, hi, mid + 1, a, k)
       IN IF first.exc # "none" THEN first ELSE Turns(first, mid, lo, a, k)

\* the turns for the indices lo up to hi
RECURSIVE TurnsUp(_, _, _, _, _)
TurnsUp(r, lo, hi, a, k) ==
  IF hi < lo THEN r
  ELSE IF hi = lo THEN Turn(r, lo, a, k)
  ELSE LET mid   == (lo + hi) \div 2
           first == TurnsUp(r, lo, mid, a, k)
       IN IF first.exc # "none" THEN first ELSE TurnsUp(first, mid + 1, hi, a, k)

\* a mutant of Substitute: the keys are replaced from 0 upwards
SubstituteUp(text, n, a, k) == TurnsUp([ret |-> text, exc |-> "none"], 0, n, a, k)

\* for n in range(c - 1, -1, -1): the turns from n down to 0
Substitute(text, n, a, k) == Turns([ret |-> text, exc |-> "none"], n, 0, a, k)

\* s.split(sep) for a one-character separator, by the positions of sep
SplitOn(s, sep) ==
  LET seps   == { i \in 1..Len(s) : s[i] = sep }
      n      == Cardinality(seps)
      pos(j) == IF j = 0 THEN 0
                ELSE IF j = n + 1 THEN Len(s) + 1
                ELSE CHOOSE i \in seps : Cardinality({ x \in seps : x <= i }) = j
  IN [j \in 1..(n + 1) |-> SubSeq(s, pos(j - 1) + 1, pos(j) - 1)]

Unavailable == [ret |-> NoneVal, exc |-> "none"]

\* decode_packed_eval(payload): the value returned, or the exception raised
\* ("hang": the call does not return)
decode_packed_eval(raw) ==
  LET start      == FindSub(raw, StartMarker, 1)
      chunk      == SubSeq(raw, start, Min(Len(raw), start + CHUNK - 1))
      idx        == FindSub(chunk, ReturnMarker, 1)
      idx2       == FindSub(chunk, << ")", "(" >>, 1)
      start_args == IF idx # 0 THEN idx + Len(ReturnMarker) ELSE idx2 + 2
      i          == CloseScan(chunk, start_args, 1)
      parts      == ArgParts(SubSeq(chunk, start_args, i - 2))
      a          == IntOf(parts[2])
      c          == IntOf(parts[3])
      p_try      == unquote_js_string(parts[1])
      p          == IF p_try.exc = "none" THEN p_try.ret ELSE StripQuotes(parts[1])
      k_string   == KString(parts[4])
  IN IF start = 0 THEN Unavailable
     ELSE IF idx = 0 /\ idx2 = 0 THEN Unavailable
     ELSE IF i = 0 THEN Unavailable
     ELSE IF Len(parts) < 4 THEN Unavailable
     ELSE IF ~a.ok \/ ~c.ok THEN Unavailable
     ELSE IF k_string.exc # "none" THEN [ret |-> NoneVal, exc |-> k_string.exc]
     ELSE Substitute(p, c.val - 1, a.val, SplitOn(k_string.ret, "|"))

\* ------------------------------------------------------------------------
\* find_next_page_url on pages of a few elements
\* ------------------------------------------------------------------------

\* most elements of a page
MaxElems == 3

Word_next == <<"n", "e", "x", "t">>

\* elements that match one heuristic, several, or none; every href is
\* different, so the value returned tells the element it was taken from
NextElems ==
  { Elem("link", Word_next, Absent, Absent, "none", << >>, <<"/", "b">>),
    Elem("link", Word_next, Absent, Absent, "none", << >>, Absent),
    Elem("a", Word_next, Absent, Absent, "none", <<"2">>, <<" ", "/", "c", " ">>),
    Elem("a", Absent, <<"N", "e", "x", "t", " ", "p">>, Absent, "none", <<"2">>, <<"/", "d">>),
    Elem("a", Absent, <<"g", "o", " ", "n", "e", "x", "t">>, Absent, "none", <<"2">>, <<"e">>),
    Elem("a", Absent, <<"N", "E", "X", "T">>, Absent, "none", <<"2">>, <<"/", "f">>),
    Elem("a", Absent, Absent, Word_next, "pagination", <<"2">>, <<"/", "g">>),
    Elem("a", Absent, Absent, Word_next, "nav", <<"2">>, <<"/", "h">>),
    Elem("a", Absent, Absent, Word_next, "none", <<"2">>, <<"/", "i">>),
    Elem("a", Absent, Absent, Absent, "none", <<" ", "O", "l", "d", "e", "r", " ">>, <<"/", "j">>),
    Elem("a", Absent, Absent, Absent, "none", <<"n", "e", "x", "t", " ", "raquo">>, << >>),
    Elem("a", Absent, Absent, Absent, "none", <<"h", "o", "m", "e">>, <<"/", "k">>),
    Elem("a", Absent, Absent, Absent, "none", Word_next, Absent),
    Elem("a", Word_next, Word_next, Word_next, "pagination", Word_next, <<"/", "m">>) }

NextBases == { <<"/", "a">>, <<"/", "x", "/", "a">> }

InitNext ==
  /\ IdlePipe
  /\ IdleNorm
  /\ IdleMerge
  /\ IdleFetch
  /\ IdleCrawl
  /\ IdleDec
  /\ IdleEx
  /\ next_doc \in SeqsUpTo(NextElems, MaxElems)
  /\ next_base \in NextBases
  /\ next_url = NoneVal
  /\ xpc = "input"

FindNext ==
  /\ xpc = "input"
  /\ next_url' = find_next_page_url(next_doc, next_base)
  /\ xpc' = "done"
  /\ UNCHANGED << next_doc, next_base >>
  /\ UNCHANGED << normVars, mergeVars, fetchVars, crawlVars, decVars, exVars, pipeVars >>

NextNext == FindNext

SpecNext == InitNext /\ [][NextNext]_vars

\* the five heuristics, in the order of the chain
Heuristic(n, e) ==
  CASE n = 1 -> IsLinkNext(e)
    [] n = 2 -> IsARelNext(e)
    [] n = 3 -> IsAAriaNext(e)
    [] n = 4 -> IsAClassNext(e)
    [] n = 5 -> IsATextNext(e)

\* the heuristics some element of the page matches
Matching(doc) == { n \in 1..5 : \E i \in 1..Len(doc) : Heuristic(n, doc[i]) }

\* the first element of the page that matches heuristic n
FirstOf(doc, n) ==
  CHOOSE i \in 1..Len(doc) : Heuristic(n, doc[i]) /\ \A j \in 1..(i - 1) : ~Heuristic(n, doc[j])

\* C16: next-link discovery is a chain in which the first match wins: when a
\* page matches several of the five heuristics, find_next_page_url returns
\* the link of the lowest-numbered heuristic that matches (the stripped href
\* of its first element, joined to the base URL), and it returns None only
\* when none of the five matches.
C16_FirstMatchWins ==
  xpc = "done" =>
    /\ (next_url = NoneVal) <=> (Matching(next_doc) = { })
    /\ Matching(next_doc) # { } =>
         LET n == CHOOSE h \in Matching(next_doc) : \A g \in Matching(next_doc) : h <= g
         IN next_url = urljoin(next_base, StripWs(next_doc[FirstOf(next_doc, n)].href))

C16_Witness ==
  /\ xpc = "done"
  /\ Matching(next_doc) = { 2, 4, 5 }
  /\ IsATextNext(next_doc[1])
  /\ IsAClassNext(next_doc[2])
  /\ ~IsARelNext(next_doc[2])
  /\ next_url = <<"/", "c">>

\* ------------------------------------------------------------------------
\* decode_packed_eval on packed and on hand-written payloads
\* ------------------------------------------------------------------------

\* the entries of a dictionary, most tokens of a packed text
MaxDict == 3

MaxTokens == 2

\* the entries of a dictionary: a word, words that read as numerals, and
\* the empty slot
DictWords == { <<"x">>, <<"0">>, <<"1", "0">>, << >> }

\* a dictionary whose last index is, in base 37, one digit beyond "z"
BigDict == [i \in 1..37 |-> IF i = 37 THEN <<"W">> ELSE << >>]

Dicts == [1..MaxDict -> DictWords] \cup { BigDict }

BasesOf(dict) == IF Len(dict) > MaxDict THEN { 37 } ELSE { 2, 10 }

\* the indices packed texts are made of
TokenChoices(dict) ==
  IF Len(dict) > MaxDict THEN { 0, Len(dict) - 1 } ELSE 0..(Len(dict) - 1)

\* the members of T in ascending order
Ascending(T) ==
  [i \in 1..Cardinality(T) |-> CHOOSE x \in T : Cardinality({ y \in T : y <= x }) = i]

\* packed texts: up to MaxTokens different indices, in ascending order
TokenSeqs(dict) ==
  { Ascending(T) : T \in { U \in SUBSET TokenChoices(dict) : Cardinality(U) \in 1..MaxTokens } }

\* the numeral the packer writes for index n: the one the decoder looks for
PackerNumeral(n, base) == int_to_base(n, base).ret

\* the word index n stands for: the entry, the numeral itself for an empty slot
WordOf(n, base, dict) ==
  IF dict[n + 1] # << >> THEN dict[n + 1] ELSE PackerNumeral(n, base)

\* the source text of a packed case and its packed form
SourceText(pk) == Join([i \in 1..Len(pk.idx) |-> WordOf(pk.idx[i], pk.base, pk.dict)], <<" ">>)

PackedText(pk) == Join([i \in 1..Len(pk.idx) |-> PackerNumeral(pk.idx[i], pk.base)], <<" ">>)

\* sep.join(parts[lo..hi])
RECURSIVE JoinRange(_, _, _, _)
JoinRange(parts, lo, hi, sep) ==
  IF lo > hi THEN << >>
  ELSE IF lo = hi THEN parts[lo]
  ELSE LET mid == (lo + hi) \div 2
       IN JoinRange(parts, lo, mid, sep) \o sep \o JoinRange(parts, mid + 1, hi, sep)

CallTail == << ",", "0", ",", "{", "}", ")", ")" >>

SplitCall == << ".split", "(", "'", "|", "'", ")" >>

\* eval(function(p,a,c,k,e,d){return p}('<packed>',<base>,<count>,'<k>'.split('|'),0,{}))
Pack(pk) ==
  StartMarker \o << "{" >> \o ReturnMarker
    \o << "'" >> \o PackedText(pk) \o << "'", "," >>
    \o NatStr(pk.base) \o << "," >> \o NatStr(Len(pk.dict)) \o << ",", "'" >>
    \o JoinRange(pk.dict, 1, Len(pk.dict), << "|" >>) \o << "'" >> \o SplitCall \o CallTail

PackedOf(dict) ==
  { [kind |-> "packed", idx |-> idx, base |-> base, dict |-> dict] :
      idx \in TokenSeqs(dict), base \in BasesOf(dict) }

PackedCases == UNION { PackedOf(dict) : dict \in Dicts }

\* hand-written payloads, by their parts
RawHead(h) ==
  CASE h = "call"     -> StartMarker \o << "{" >> \o ReturnMarker
    [] h = "fallback" -> StartMarker \o << "{", "}", ")", "(" >>
    [] h = "nocall"   -> StartMarker \o << "{", "}" >>
    [] h = "nomarker" -> << "v", "a", "r", " ", "x", "(" >>

RawP(v) ==
  CASE v = "quoted"     -> << "'", "1", " ", "0", "'" >>
    [] v = "paren"      -> << "'", "1", " ", ")", "0", "'" >>
    [] v = "unclosed"   -> << "'", "1", " ", "0" >>

RawK(v) ==
  CASE v = "split"     -> << ",", "'", "x", "|", "y", "'" >> \o SplitCall
    [] v = "unclosed"  -> << ",", "'", "x", "|", "y" >>
    [] v = "backslash" -> << ",", "'", "x", "|", "y", "\\", "'" >> \o SplitCall
    [] v = "absent"    -> << >>

RawTail(v) ==
  CASE v = "six"    -> CallTail
    [] v = "four"   -> << ")", ")" >>
    [] v = "open"   -> << >>

RawPayload(rw) ==
  RawHead(rw.head) \o RawP(rw.p) \o << "," >> \o rw.a \o << "," >> \o rw.c
    \o RawK(rw.k) \o (IF rw.k = "absent" THEN << ")", ")" >> ELSE RawTail(rw.tail))

RawCases ==
  { [kind |-> "raw", head |-> h, p |-> p, a |-> a, c |-> c, k |-> k, tail |-> t] :
      h \in { "call", "fallback", "nocall", "nomarker" },
      p \in { "quoted", "paren", "unclosed" },
      a \in { <<"1", "0">>, <<"0">>, <<"1">>, <<"a">> },
      c \in { <<"2">>, <<"x">> },
      k \in { "split", "unclosed", "backslash", "absent" },
      t \in { "six", "four", "open" } }

InitDecode ==
  /\ IdlePipe
  /\ IdleNorm
  /\ IdleMerge
  /\ IdleFetch
  /\ IdleCrawl
  /\ IdleNext
  /\ IdleEx
  /\ packed \in PackedCases \cup RawCases
  /\ payload = IF packed.kind = "packed" THEN Pack(packed) ELSE RawPayload(packed)
  /\ decoded = NoneVal
  /\ dec_exc = "none"
  /\ dpc = "input"

\* decoded = decode_packed_eval(html)
Decode ==
  /\ dpc = "input"
  /\ LET out == decode_packed_eval(payload)
     IN decoded' = out.ret /\ dec_exc' = out.exc
  /\ dpc' = "done"
  /\ UNCHANGED << packed, payload >>
  /\ UNCHANGED << normVars, mergeVars, fetchVars, crawlVars, nextVars, exVars, pipeVars >>

NextDecode == Decode

SpecDecode == InitDecode /\ [][NextDecode]_vars

DecodedPacked == dpc = "done" /\ packed.kind = "packed"

\* C17: packing a source text (any base, any dictionary, the count of the
\* dictionary) and decoding the payload returns exactly the source text.
C17_RoundTrip ==
  DecodedPacked => dec_exc = "none" /\ decoded = SourceText(packed)

\* the packed text holds both the key "1" and the key "10" of its base
HasKeys1And10(pk) ==
  /\ pk.base < Len(pk.dict)
  /\ \E i \in 1..Len(pk.idx) : pk.idx[i] = 1
  /\ \E i \in 1..Len(pk.idx) : pk.idx[i] = pk.base

\* entry n of the dictionary reads as the numeral of a lower index
ReadsAsLowerKey(pk, n) ==
  \E j \in 0..(n - 1) : pk.dict[n + 1] = PackerNumeral(j, pk.base)

\* the decoded words at the places of the tokens "1" and "10" are the
\* entries of these indices
OwnEntries(pk, text) ==
  LET words == SplitOn(text, " ")
  IN /\ Len(words) = Len(pk.idx)
     /\ \A i \in 1..Len(pk.idx) :
          pk.idx[i] \in { 1, pk.base } => words[i] = WordOf(pk.idx[i], pk.base, pk.dict)

\* C18 as stated: a payload holding the keys "1" and "10" decodes each of
\* the two tokens to its own dictionary entry, whatever the dictionary.
C18_NoCrossCorruption_Original ==
  DecodedPacked /\ HasKeys1And10(packed)
    => dec_exc = "none" /\ OwnEntries(packed, decoded)

\* C18: a payload holding the keys "1" and "10" decodes each of the two
\* tokens to its own dictionary entry when neither entry reads as the
\* numeral of a lower index; the turns from count-1 down to 0 keep an entry
\* that reads as a higher key.
C18_NoCrossCorruption ==
  DecodedPacked /\ HasKeys1And10(packed)
    /\ ~ReadsAsLowerKey(packed, 1) /\ ~ReadsAsLowerKey(packed, packed.base)
    => dec_exc = "none" /\ OwnEntries(packed, decoded)

\* "1 10" in base 2 with the entry of key "1" reading as the key "10":
\* decoded to "10 x"
C18_Witness ==
  /\ DecodedPacked
  /\ packed.base = 2
  /\ packed.idx = << 1, 2 >>
  /\ packed.dict = << <<"x">>, <<"1", "0">>, <<"x">> >>
  /\ decoded = << "1", "0", " ", "x" >>

\* the parts of a hand-written payload that make the call unreadable
MarkerMissing(rw) == rw.head = "nomarker"

ArgumentsFail(rw) ==
  \/ rw.head = "nocall"
  \/ rw.k = "absent"
  \/ rw.p = "unclosed" \/ rw.k = "unclosed"
  \/ rw.k # "absent" /\ rw.tail = "open"
  \/ rw.a = <<"a">> \/ rw.c = <<"x">>

\* C19: decode_packed_eval returns None exactly when the marker is missing
\* or the arguments cannot be read (fewer than four, an unterminated quote
\* or parenthesis, a base or count that is no integer); otherwise it
\* returns text; it never raises.
C19_UnavailableExactly ==
  dpc = "done" /\ packed.kind = "raw"
    => /\ dec_exc = "none"
       /\ (decoded = NoneVal) <=> (MarkerMissing(packed) \/ ArgumentsFail(packed))

\* ------------------------------------------------------------------------
\* extract_playlist_urls (scripts/missav.py 157-169). A text is a sequence
\* of characters; "http", "://", ".m3u8" and "/playlist" stand for their
\* characters where they occur as a whole; the texts of the model have the
\* letters m, u, p, l, h, t and the colon nowhere else.
\* ------------------------------------------------------------------------

\* [A-Za-z0-9\-\._/~%]
IsUrlChar(c) ==
  c \in { "http", ".m3u8", "/playlist", "-", ".", "_", "/", "~", "%" } \/ IsAlpha(c) \/ IsDigit(c)

\* [^\s'\"<>]
IsQueryChar(c) == c \notin WhiteSpace \cup { "'", "\"", "<", ">" }

\* \w
IsWordTok(c) == c = "http" \/ IsWordChar(c)

\* the last position of the longest run from b on whose characters satisfy
\* Ok, b - 1 when there is none
RunEnd(text, b, Ok(_)) ==
  LET bad == { j \in b..Len(text) : ~Ok(text[j]) }
  IN IF bad = { } THEN Len(text) ELSE (CHOOSE j \in bad : \A x \in bad : j <= x) - 1

\* https?:// at position i: the position after it, 0 when it is not there
SchemeEnd(text, i) ==
  IF i + 1 <= Len(text) /\ text[i] = "http" /\ text[i + 1] = "://" THEN i + 2
  ELSE IF i + 2 <= Len(text) /\ text[i] = "http" /\ text[i + 1] = "s" /\ text[i + 2] = "://"
    THEN i + 3
  ELSE 0

\* (?:\?[^\s'\"<>]+)? after position e: the last position of the match
QueryEnd(text, e) ==
  IF e + 2 <= Len(text) /\ text[e + 1] = "?" /\ IsQueryChar(text[e + 2])
    THEN RunEnd(text, e + 2, IsQueryChar)
    ELSE e

\* (?:\.\w+)? after position e: the last position of the match
ExtEnd(text, e) ==
  IF e + 1 <= Len(text) /\ text[e + 1] = ".m3u8" THEN RunEnd(text, e + 2, IsWordTok)
  ELSE IF e + 2 <= Len(text) /\ text[e + 1] = "." /\ IsWordTok(text[e + 2])
    THEN RunEnd(text, e + 2, IsWordTok)
  ELSE e

\* the two patterns, by the literal that follows the run of URL characters
patterns == << ".m3u8", "/playlist" >>

\* the last position of the match of pattern pat that starts at i, 0 when
\* there is none: the run of URL characters is greedy, so the literal is
\* the last one in the run that has a URL character before it
MatchEnd(pat, text, i) ==
  LET b    == SchemeEnd(text, i)
      r    == RunEnd(text, b, IsUrlChar)
      hits == { j \in (b + 1)..r : text[j] = pat }
      last == CHOOSE j \in hits : \A x \in hits : x <= j
  IN IF b = 0 \/ hits = { } THEN 0
     ELSE IF pat = ".m3u8" THEN QueryEnd(text, last)
     ELSE QueryEnd(text, ExtEnd(text, last))

\* the matches of pat in text from position from on, from left to right,
\* none overlapping another: where each starts and ends
RECURSIVE finditer(_, _, _)
finditer(pat, text, from) ==
  LET starts == { i \in from..Len(text) : MatchEnd(pat, text, i) # 0 }
      i      == CHOOSE x \in starts : \A y \in starts : x <= y
      e      == MatchEnd(pat, text, i)
  IN IF starts = { } THEN << >>
     ELSE << [start |-> i, end |-> e] >> \o finditer(pat, text, e + 1)

\* the texts of the matches ms
Matched(text, ms) == [n \in 1..Len(ms) |-> SubSeq(text, ms[n].start, ms[n].end)]

\* re.findall(pat, text)
findall(pat, text) == Matched(text, finditer(pat, text, 1))

\* a mutant of AddUnseen: every match is appended
AddUnseen_All(out, us) == out \o us

\* "if u not in seen: seen.add(u); out.append(u)" for the matches us in turn
RECURSIVE AddUnseen(_, _)
AddUnseen(out, us) ==
  IF us = << >> THEN out
  ELSE AddUnseen(IF \E i \in 1..Len(out) : out[i] = us[1] THEN out ELSE Append(out, us[1]),
                 Tail(us))

\* extract_playlist_urls(text)
extract_playlist_urls(text) ==
  AddUnseen(AddUnseen(<< >>, findall(patterns[1], text)), findall(patterns[2], text))

\* most URLs and words of a text
MaxItems == 3

\* the URLs and words texts are made of
TextItems ==
  { << "http", "://", "a", ".m3u8" >>,
    << "http", "://", "a", "/playlist" >>,
    << "http", "s", "://", "a", "/playlist", ".m3u8" >>,
    << "http", "://", "b", ".m3u8", "?", "q", "=", "1" >>,
    << "http", "://", "a", "/playlist", "/", "b", ".m3u8" >>,
    << "http", "://", "b", "/playlist", ".", "a", "?", "q" >>,
    << "http", "://", "b" >> }

\* what stands between two items
Separators == { << " " >>, << "'" >> }

ExtractTexts ==
  { Join(items, sep) : items \in SeqsUpTo(TextItems, MaxItems) \ { << >> }, sep \in Separators }

InitExtract ==
  /\ IdlePipe
  /\ IdleNorm
  /\ IdleMerge
  /\ IdleFetch
  /\ IdleCrawl
  /\ IdleNext
  /\ IdleDec
  /\ ex_text \in ExtractTexts
  /\ ex_urls = << >>
  /\ epc = "input"

\* urls = extract_playlist_urls(text)
Extract ==
  /\ epc = "input"
  /\ ex_urls' = extract_playlist_urls(ex_text)
  /\ epc' = "done"
  /\ UNCHANGED ex_text
  /\ UNCHANGED << normVars, mergeVars, fetchVars, crawlVars, nextVars, decVars, pipeVars >>

NextExtract == Extract

SpecExtract == InitExtract /\ [][NextExtract]_vars

\* the URL of a match in the text that was read, the URLs of a sequence of
\* matches
UrlOf(m) == SubSeq(ex_text, m.start, m.end)

UrlsOf(ms) == { UrlOf(ms[n]) : n \in 1..Len(ms) }

Least(S) == CHOOSE x \in S : \A y \in S : x <= y

\* where the first of the matches ms that reads u starts
FirstStart(ms, u) == Least({ ms[n].start : n \in { k \in 1..Len(ms) : UrlOf(ms[k]) = u } })

NoDuplicates(us) == \A i, j \in 1..Len(us) : us[i] = us[j] => i = j

\* C20 as stated: extract_playlist_urls returns every matching URL of the
\* text exactly once, in the order in which each URL first occurs in the
\* text.
C20_TextOrder ==
  epc = "done"
    => LET ms1 == finditer(".m3u8", ex_text, 1)
           ms2 == finditer("/playlist", ex_text, 1)
           at  == [n \in 1..Len(ex_urls) |-> FirstStart(ms1 \o ms2, ex_urls[n])]
       IN /\ NoDuplicates(ex_urls)
          /\ Range(ex_urls) = UrlsOf(ms1) \cup UrlsOf(ms2)
          /\ \A i, j \in 1..Len(ex_urls) : i < j => at[i] <= at[j]

\* C20: extract_playlist_urls returns every matching URL of the text
\* exactly once: first the URLs the .m3u8 pattern finds, in the order of
\* their first match in the text, then the URLs only the /playlist pattern
\* finds, in the order of their first match in the text.
C20_PatternThenTextOrder ==
  epc = "done"
    => LET ms1  == finditer(".m3u8", ex_text, 1)
           ms2  == finditer("/playlist", ex_text, 1)
           by1  == UrlsOf(ms1)
           rank == [n \in 1..Len(ex_urls) |-> IF ex_urls[n] \in by1 THEN 1 ELSE 2]
           at   == [n \in 1..Len(ex_urls) |->
                      FirstStart(IF rank[n] = 1 THEN ms1 ELSE ms2, ex_urls[n])]
       IN /\ NoDuplicates(ex_urls)
          /\ Range(ex_urls) = by1 \cup UrlsOf(ms2)
          /\ \A i, j \in 1..Len(ex_urls) :
               i < j => rank[i] < rank[j] \/ (rank[i] = rank[j] /\ at[i] < at[j])

\* a /playlist URL, then a .m3u8 URL, then the /playlist URL again: the
\* .m3u8 URL is returned first, the /playlist URL once
C20_Witness ==
  /\ epc = "done"
  /\ ex_text = << "http", "://", "a", "/playlist", " ", "http", "://", "a", ".m3u8", " ",
                  "http", "://", "a", "/playlist" >>
  /\ ex_urls = << << "http", "://", "a", ".m3u8" >>, << "http", "://", "a", "/playlist" >> >>

\* ------------------------------------------------------------------------
\* SpecProcess: process_url after its fetch (scripts/missav.py)
\* ------------------------------------------------------------------------

\* a URL of the item pages: matched by the /playlist pattern
PlaylistUrl == << "http", "://", "a", "/playlist" >>

\* a URL matched by the .m3u8 pattern alone
ManifestUrl == << "http", "://", "b", ".m3u8" >>

\* the entries of the dictionaries of the item pages
ProcWords == { << "x" >>, PlaylistUrl, << >> }

ProcDicts == [1..2 -> ProcWords]

\* a packed text with no token: it decodes to the empty string
EmptyPacked == [kind |-> "packed", idx |-> << >>, base |-> 10, dict |-> << << "x" >> >>]

\* the packer calls of the item pages
ProcCalls ==
  { Pack(pk) : pk \in UNION { PackedOf(dict) : dict \in ProcDicts } \cup { EmptyPacked } }
    \cup { RawPayload(rw) :
             rw \in { r \in RawCases : /\ r.head \in { "call", "nomarker" }
                                      /\ r.p = "quoted"
                                      /\ r.a \in { <<"1", "0">>, <<"0">> }
                                      /\ r.c = <<"2">>
                                      /\ r.k \in { "split", "absent" }
                                      /\ r.tail = "six" } }
    \cup { << >> }

\* what the page holds before the packer call
ProcHeads == { << >>, ManifestUrl \o << " " >> }

\* the item pages: a head and a packer call (or none)
ProcPages == { head \o call : head \in ProcHeads, call \in ProcCalls } \ { << >> }

InitProcess ==
  /\ IdleNorm
  /\ IdleMerge
  /\ IdleFetch
  /\ IdleCrawl
  /\ IdleNext
  /\ IdleDec
  /\ IdleEx
  /\ IdleMain
  /\ IdleScr
  /\ pu_html \in ProcPages
  /\ pu_decoded = NoneVal
  /\ pu_input = "none"
  /\ pu_result = << >>
  /\ pu_exc = "none"
  /\ ppc = "input"

\* decoded = decode_packed_eval(html); an exception leaves process_url
DecodePage ==
  /\ ppc = "input"
  /\ LET out == decode_packed_eval(pu_html)
     IN /\ pu_decoded' = out.ret
        /\ pu_exc' = out.exc
        /\ ppc' = IF out.exc = "none" THEN "decoded" ELSE "done"
  /\ UNCHANGED << pu_html, pu_input, pu_result >>
  /\ UNCHANGED << normVars, mergeVars, fetchVars, crawlVars, nextVars, decVars, exVars, mainVars, scrVars >>

\* if decoded: urls = extract_playlist_urls(decoded); if urls: return (url, urls)
FromDecoded(dec) == Truthy(dec) /\ extract_playlist_urls(dec) # << >>

\* the text the list returned is extracted from: the decoded text when it
\* gives URLs, the page otherwise (return (url, extract_playlist_urls(html)))
InputText(page, dec) == IF FromDecoded(dec) THEN dec ELSE page

\* the rest of process_url: the list returned and the text it came from
ExtractPage ==
  /\ ppc = "decoded"
  /\ pu_result' = extract_playlist_urls(InputText(pu_html, pu_decoded))
  /\ pu_input' = IF FromDecoded(pu_decoded) THEN "decoded" ELSE "html"
  /\ ppc' = "done"
  /\ UNCHANGED << pu_html, pu_decoded, pu_exc >>
  /\ UNCHANGED << normVars, mergeVars, fetchVars, crawlVars, nextVars, decVars, exVars, mainVars, scrVars >>

NextProcess == DecodePage \/ ExtractPage

SpecProcess == InitProcess /\ [][NextProcess]_vars

\* C21: when process_url has ended, no exception has left it, and the list
\* it returns was extracted from the decoded text when the decoder gave
\* one and from the raw page otherwise
C21_DecodedElseRaw ==
  ppc = "done" =>
    /\ pu_exc = "none"
    /\ pu_decoded # NoneVal => pu_input = "decoded"
    /\ pu_decoded = NoneVal => pu_input = "html"

\* ------------------------------------------------------------------------
\* SpecMain: main of scripts/missav.py, the walk, one task per item URL
\* under the semaphore, asyncio.gather and the output loop
\* ------------------------------------------------------------------------

\* most item URLs of a run, and the largest semaphore
MaxTasks == 2

MaxConcurrency == 2

\* the item URLs, in the order of sorted()
ItemUrls == << "A", "B", "C", "D", "E" >>

Items == Range(ItemUrls)

\* attempts that fail before the item's page is fetched; the page of "C"
\* is never fetched
Fails(u) ==
  CASE u = "B" -> 2
    [] u = "C" -> 99
    [] OTHER   -> 0

\* the page of an item: "A" packs a text with a /playlist URL, "B" holds no
\* reference, "D" is a packer call with base 0, "E" packs a text with a .m3u8
\* URL
Body(u) ==
  CASE u = "A" -> Pack([kind |-> "packed", idx |-> << 0, 1 >>, base |-> 10,
                        dict |-> << << "x" >>, PlaylistUrl >>])
    [] u = "B" -> << "x" >>
    [] u = "D" -> RawPayload([kind |-> "raw", head |-> "call", p |-> "quoted",
                              a |-> << "0" >>, c |-> << "2" >>, k |-> "split",
                              tail |-> "six"])
    [] u = "E" -> Pack([kind |-> "packed", idx |-> << 0, 1 >>, base |-> 10,
                        dict |-> << << "x" >>, ManifestUrl >>])
    [] OTHER   -> << >>

\* lines 326-331 of process_url: out is what decode_packed_eval gave
UrlsFrom(page, out) ==
  IF out.exc # "none" THEN [exc |-> out.exc, urls |-> << >>]
  ELSE [exc |-> "none", urls |-> extract_playlist_urls(InputText(page, out.ret))]

\* lines 325-331 of process_url on a fetched page
UrlsOfPage(page) == UrlsFrom(page, decode_packed_eval(page))

\* the outcome of lines 325-331 on the pages of the items, computed once
PageResult == [u \in Items |-> UrlsOfPage(Body(u))]

\* fetch_with_retries(fetcher, url, retries=3)
process_retries == 3

\* a mutant of MayRetry: one retry
MayRetryOnce(a) == a < 1

\* if attempt < retries: the task sleeps and tries again
MayRetry(a) == a < process_retries

\* the members of S in the order of ItemUrls: sorted(all_posts)
SortedUrls(S) == SelectSeq(ItemUrls, LAMBDA u : u \in S)

NoResult == [kind |-> "none", url |-> "", urls |-> << >>]

NewTask == [pc |-> "new", attempt |-> 0, fetched |-> FALSE, result |-> NoResult]

\* a mutant of listing_fetch_sem: the walk takes a slot for each page
listing_fetch_sem_Acquire(s) == s - 1

\* the semaphore over a fetch of the walk: crawl_listing_posts calls
\* fetch_with_retries itself, not under sem
listing_fetch_sem(s) == s

\* a mutant of sem_exit: the slot is given back on return only
sem_exit_ReturnOnly(s, e) == IF e = "none" THEN s + 1 ELSE s

\* the end of "async with sem": the slot is given back, whatever the exit
sem_exit(s, e) == s + 1

Ended(t) == t.pc \in { "done", "cancelled", "aborted" }

\* a mutant of gather_done: the first task that ends is enough
gather_done_Any(ts) == \E i \in DOMAIN ts : Ended(ts[i])

\* asyncio.gather returns when every task has ended
gather_done(ts) == \A i \in DOMAIN ts : Ended(ts[i])

\* a mutant of gather_raises: return_exceptions=False
gather_raises_First(rs) == \E i \in DOMAIN rs : rs[i].kind = "exception"

\* return_exceptions=True: no exception of a task is raised by gather
gather_raises(rs) == FALSE

TaskResults == [i \in DOMAIN tasks |-> tasks[i].result]

\* if "missav" in u or "playlist" in u
Keeps(u) ==
  \/ "/playlist" \in Range(u)
  \/ FindSub(u, << "p", "l", "a", "y", "l", "i", "s", "t" >>, 1) # 0
  \/ FindSub(u, << "m", "i", "s", "s", "a", "v" >>, 1) # 0

\* the lines written for one item: the page URL, its URLs, a blank line
Block(item) == << << item.url >> >> \o SelectSeq(item.urls, Keeps) \o << << >> >>

InitMain ==
  /\ IdleNorm
  /\ IdleMerge
  /\ IdleFetch
  /\ IdleCrawl
  /\ IdleNext
  /\ IdleDec
  /\ IdleEx
  /\ IdleProc
  /\ IdleScr
  /\ concurrency \in 1..MaxConcurrency
  /\ walk_left \in 1..2
  /\ found_posts \in { S \in SUBSET Items : Cardinality(S) <= MaxTasks }
  /\ target_urls = << >>
  /\ sem = concurrency
  /\ tasks = << >>
  /\ results = << >>
  /\ oi = 0
  /\ ii = 0
  /\ out_file = << >>
  /\ interrupted = FALSE
  /\ mpc = "crawl"

\* a listing page is fetched by the walk
ListingFetch ==
  /\ mpc = "crawl"
  /\ walk_left > 0
  /\ walk_left' = walk_left - 1
  /\ sem' = listing_fetch_sem(sem)
  /\ UNCHANGED << concurrency, found_posts, target_urls, tasks, results, oi, ii,
                  out_file, interrupted, mpc >>
  /\ UNCHANGED << normVars, mergeVars, fetchVars, crawlVars, nextVars, decVars, exVars,
                  procVars, scrVars >>

\* crawl_listing_posts returns; main returns when there is no item URL,
\* and makes a task of every item URL otherwise
WalkReturn ==
  /\ mpc = "crawl"
  /\ walk_left = 0
  /\ target_urls' = SortedUrls(found_posts)
  /\ IF target_urls' = << >>
       THEN mpc' = "done" /\ UNCHANGED tasks
       ELSE /\ mpc' = "gather"
            /\ tasks' = [i \in 1..Len(target_urls') |-> NewTask]
  /\ UNCHANGED << concurrency, walk_left, found_posts, sem, results, oi, ii, out_file,
                  interrupted >>
  /\ UNCHANGED << normVars, mergeVars, fetchVars, crawlVars, nextVars, decVars, exVars,
                  procVars, scrVars >>

\* async with sem: the task takes a slot and sends its first request
Enter(i) ==
  /\ mpc = "gather"
  /\ tasks[i].pc = "new"
  /\ sem > 0
  /\ sem' = sem - 1
  /\ tasks' = [tasks EXCEPT ![i].pc = "fetch"]
  /\ UNCHANGED << concurrency, walk_left, found_posts, target_urls, results, oi, ii,
                  out_file, interrupted, mpc >>
  /\ UNCHANGED << normVars, mergeVars, fetchVars, crawlVars, nextVars, decVars, exVars,
                  procVars, scrVars >>

\* the result of a task whose page was fetched: r is what lines 325-331 gave
ResultOf(u, r) ==
  IF r.exc = "none" THEN [kind |-> "value", url |-> u, urls |-> r.urls]
  ELSE [kind |-> "exception", url |-> u, urls |-> << >>]

\* the request of task i for u is answered: with a page, the rest of
\* process_url runs and the task ends (r is what it gives); with none, the
\* task sleeps or gives up
Answered(i, u, r) ==
  IF tasks[i].attempt >= Fails(u)
    THEN /\ tasks' = [tasks EXCEPT ![i].pc = "done", ![i].fetched = TRUE,
                                   ![i].result = ResultOf(u, r)]
         /\ sem' = sem_exit(sem, r.exc)
    ELSE IF MayRetry(tasks[i].attempt)
      THEN /\ tasks' = [tasks EXCEPT ![i].pc = "sleep"]
           /\ UNCHANGED sem
      ELSE /\ tasks' = [tasks EXCEPT ![i].pc = "done",
                           ![i].result = [kind |-> "value", url |-> u, urls |-> << >>]]
           /\ sem' = sem_exit(sem, "none")

FetchReturn(i) ==
  /\ mpc = "gather"
  /\ tasks[i].pc = "fetch"
  /\ Answered(i, target_urls[i], PageResult[target_urls[i]])
  /\ UNCHANGED << concurrency, walk_left, found_posts, target_urls, results, oi, ii,
                  out_file, interrupted, mpc >>
  /\ UNCHANGED << normVars, mergeVars, fetchVars, crawlVars, nextVars, decVars, exVars,
                  procVars, scrVars >>

\* the sleep between two attempts ends and the next request is sent
Wake(i) ==
  /\ mpc = "gather"
  /\ tasks[i].pc = "sleep"
  /\ tasks' = [tasks EXCEPT ![i].pc = "fetch", ![i].attempt = @ + 1]
  /\ UNCHANGED << concurrency, walk_left, found_posts, target_urls, sem, results, oi, ii,
                  out_file, interrupted, mpc >>
  /\ UNCHANGED << normVars, mergeVars, fetchVars, crawlVars, nextVars, decVars, exVars,
                  procVars, scrVars >>

\* KeyboardInterrupt while main awaits: the main task is cancelled, during
\* the walk it ends at once, in gather the tasks are cancelled first
Interrupt ==
  /\ ~interrupted
  /\ mpc \in { "crawl", "gather" }
  /\ interrupted' = TRUE
  /\ mpc' = IF mpc = "crawl" THEN "raised" ELSE "cancelling"
  /\ UNCHANGED << concurrency, walk_left, found_posts, target_urls, sem, tasks, results,
                  oi, ii, out_file >>
  /\ UNCHANGED << normVars, mergeVars, fetchVars, crawlVars, nextVars, decVars, exVars,
                  procVars, scrVars >>

\* CancelledError is raised at the await task i is suspended in: a task in
\* its request is cut off there (Fetcher.fetch re-raises), and a task
\* inside "async with sem" leaves it
Cancel(i) ==
  /\ mpc = "cancelling"
  /\ ~Ended(tasks[i])
  /\ tasks' = [tasks EXCEPT ![i].pc = IF @ = "fetch" THEN "aborted" ELSE "cancelled"]
  /\ sem' = IF tasks[i].pc = "new" THEN sem ELSE sem_exit(sem, "CancelledError")
  /\ UNCHANGED << concurrency, walk_left, found_posts, target_urls, results, oi, ii,
                  out_file, interrupted, mpc >>
  /\ UNCHANGED << normVars, mergeVars, fetchVars, crawlVars, nextVars, decVars, exVars,
                  procVars, scrVars >>

\* every task is cancelled: main ends with CancelledError
CancelReturn ==
  /\ mpc = "cancelling"
  /\ \A i \in DOMAIN tasks : Ended(tasks[i])
  /\ mpc' = "raised"
  /\ UNCHANGED << concurrency, walk_left, found_posts, target_urls, sem, tasks, results,
                  oi, ii, out_file, interrupted >>
  /\ UNCHANGED << normVars, mergeVars, fetchVars, crawlVars, nextVars, decVars, exVars,
                  procVars, scrVars >>

\* results = await asyncio.gather(*tasks, return_exceptions=True)
GatherReturn ==
  /\ mpc = "gather"
  /\ gather_done(tasks) \/ gather_raises(TaskResults)
  /\ results' = TaskResults
  /\ IF gather_raises(TaskResults)
       THEN mpc' = "raised" /\ UNCHANGED oi
       ELSE mpc' = "output" /\ oi' = 1
  /\ UNCHANGED << concurrency, walk_left, found_posts, target_urls, sem, tasks, ii,
                  out_file, interrupted >>
  /\ UNCHANGED << normVars, mergeVars, fetchVars, crawlVars, nextVars, decVars, exVars,
                  procVars, scrVars >>

\* for item in results: an exception is printed and skipped, for any other
\* item the output file is opened
OuterStep ==
  /\ mpc = "output"
  /\ ii = 0
  /\ oi <= Len(results)
  /\ IF results[oi].kind = "exception"
       THEN oi' = oi + 1 /\ UNCHANGED ii
       ELSE ii' = 1 /\ UNCHANGED oi
  /\ UNCHANGED << concurrency, walk_left, found_posts, target_urls, sem, tasks, results,
                  out_file, interrupted, mpc >>
  /\ UNCHANGED << normVars, mergeVars, fetchVars, crawlVars, nextVars, decVars, exVars,
                  procVars, scrVars >>

\* the loop inside "with open": for item in results, the block of every
\* item that is no exception and has URLs is written
InnerStep ==
  /\ mpc = "output"
  /\ ii >= 1
  /\ ii <= Len(results)
  /\ out_file' = IF results[ii].kind = "exception" \/ results[ii].urls = << >>
                   THEN out_file
                   ELSE out_file \o Block(results[ii])
  /\ ii' = ii + 1
  /\ UNCHANGED << concurrency, walk_left, found_posts, target_urls, sem, tasks, results,
                  oi, interrupted, mpc >>
  /\ UNCHANGED << normVars, mergeVars, fetchVars, crawlVars, nextVars, decVars, exVars,
                  procVars, scrVars >>

\* the inner loop is over: the file is closed, the outer loop goes on
InnerEnd ==
  /\ mpc = "output"
  /\ ii > Len(results)
  /\ ii' = 0
  /\ oi' = oi + 1
  /\ UNCHANGED << concurrency, walk_left, found_posts, target_urls, sem, tasks, results,
                  out_file, interrupted, mpc >>
  /\ UNCHANGED << normVars, mergeVars, fetchVars, crawlVars, nextVars, decVars, exVars,
                  procVars, scrVars >>

\* the outer loop is over: main returns
OutputEnd ==
  /\ mpc = "output"
  /\ ii = 0
  /\ oi > Len(results)
  /\ mpc' = IF interrupted THEN "raised" ELSE "done"
  /\ UNCHANGED << concurrency, walk_left, found_posts, target_urls, sem, tasks, results,
                  oi, ii, out_file, interrupted >>
  /\ UNCHANGED << normVars, mergeVars, fetchVars, crawlVars, nextVars, decVars, exVars,
                  procVars, scrVars >>

\* KeyboardInterrupt during the output loop, which has no await: the loop
\* is left where it stands, or (the runner only cancels the main task)
\* it runs to its end
InterruptOutput ==
  /\ ~interrupted
  /\ mpc = "output"
  /\ interrupted' = TRUE
  /\ \E left \in BOOLEAN : mpc' = IF left THEN "raised" ELSE "output"
  /\ UNCHANGED << concurrency, walk_left, found_posts, target_urls, sem, tasks, results,
                  oi, ii, out_file >>
  /\ UNCHANGED << normVars, mergeVars, fetchVars, crawlVars, nextVars, decVars, exVars,
                  procVars, scrVars >>

NextMain ==
  \/ ListingFetch
  \/ WalkReturn
  \/ \E i \in DOMAIN tasks : Enter(i)
  \/ \E i \in DOMAIN tasks : FetchReturn(i)
  \/ \E i \in DOMAIN tasks : Wake(i)
  \/ \E i \in DOMAIN tasks : Cancel(i)
  \/ Interrupt
  \/ CancelReturn
  \/ GatherReturn
  \/ OuterStep
  \/ InnerStep
  \/ InnerEnd
  \/ OutputEnd
  \/ InterruptOutput

SpecMain == InitMain /\ [][NextMain]_vars

\* ---- the claims about main ----

\* the tasks inside "async with sem"
InFlight == { i \in DOMAIN tasks : tasks[i].pc \in { "fetch", "sleep" } }

AllEnded == \A i \in DOMAIN tasks : Ended(tasks[i])

\* C22: at every moment the tasks inside the semaphore-guarded section are
\* at most as many as the ceiling, the free slots are the ceiling less the
\* tasks inside, and when every task has ended (by return, by exception or
\* by cancellation) all slots are free
C22_Ceiling ==
  /\ Cardinality(InFlight) <= concurrency
  /\ sem = concurrency - Cardinality(InFlight)
  /\ AllEnded => sem = concurrency

\* more tasks than slots have run; one ended by an exception and one after
\* its retries were used up, and all slots are free again
C22_Witness ==
  /\ mpc = "done"
  /\ Len(tasks) > concurrency
  /\ \E i \in DOMAIN tasks : tasks[i].result.kind = "exception"
  /\ \E i \in DOMAIN tasks : ~tasks[i].fetched /\ tasks[i].attempt = process_retries
  /\ sem = concurrency

\* the result a task has by its own item alone
OwnResult(u) ==
  IF Fails(u) > process_retries THEN [kind |-> "value", url |-> u, urls |-> << >>]
  ELSE ResultOf(u, PageResult[u])

Succeeded == { i \in DOMAIN results : results[i].kind = "value" /\ results[i].urls # << >> }

Failed == { i \in DOMAIN results : results[i].kind = "exception" \/ results[i].urls = << >> }

\* C23: main ends by an exception only when it was interrupted, no task is
\* cancelled unless main was interrupted, and the list gather returns holds,
\* for every scheduled item, the result that item has by itself, so that
\* scheduled = succeeded + failed
C23_Isolation ==
  /\ mpc = "raised" => interrupted
  /\ ~interrupted => \A i \in DOMAIN tasks : tasks[i].pc \notin { "cancelled", "aborted" }
  /\ mpc \in { "output", "done" } =>
       /\ Len(results) = Len(target_urls)
       /\ \A i \in DOMAIN results : results[i] = OwnResult(target_urls[i])
       /\ Cardinality(Succeeded) + Cardinality(Failed) = Len(target_urls)

\* a run of one task that raises and of tasks that all succeed has ended
C23_Witness ==
  /\ mpc = "done"
  /\ Len(results) >= 2
  /\ Cardinality({ i \in DOMAIN results : results[i].kind = "exception" }) = 1
  /\ Cardinality(Succeeded) = Len(results) - 1

\* C24: the results are read and the output file is written only when
\* every scheduled task has ended
C24_WriteAfterAll ==
  (mpc = "output" \/ results # << >> \/ out_file # << >>) => AllEnded

\* the file is being written in a run of two tasks or more
C24_Witness ==
  /\ mpc = "output"
  /\ ii >= 1
  /\ out_file # << >>
  /\ Len(tasks) >= 2

\* C26: after an interrupt no task is cut off in the middle of a request,
\* and main does not end inside the loop that writes the file
C26_GracefulInterrupt ==
  interrupted =>
    /\ \A i \in DOMAIN tasks : tasks[i].pc # "aborted"
    /\ mpc = "raised" => ii = 0

\* the URLs of the decoded text of the page of u
DecodedUrls(page, out) ==
  IF out.exc = "none" /\ Truthy(out.ret) THEN extract_playlist_urls(out.ret) ELSE << >>

DecodedUrlsOf == [u \in Items |-> DecodedUrls(Body(u), decode_packed_eval(Body(u)))]

\* the fetch of u fails twice and then gives a page with no reference
FailsTwiceNoRef(u) == Fails(u) = 2 /\ PageResult[u] = [exc |-> "none", urls |-> << >>]

\* the item of task i was fetched at the third attempt and has no line in
\* the output
FetchedNoRows(i) ==
  /\ tasks[i].fetched
  /\ tasks[i].attempt = 2
  /\ results[i] = [kind |-> "value", url |-> target_urls[i], urls |-> << >>]
  /\ << target_urls[i] >> \notin Range(out_file)

C28_PhaseOrder ==
  /\ mpc = "crawl" => tasks = << >> /\ sem = concurrency
  /\ (\E i \in DOMAIN tasks : tasks[i].pc # "new") => walk_left = 0 /\ target_urls # << >>
  /\ target_urls = << >> => tasks = << >> /\ out_file = << >>

\* the walk has returned no item URL and main has returned
C28_Witness ==
  /\ mpc = "done"
  /\ walk_left = 0
  /\ found_posts = { }
  /\ out_file = << >>

\* the lines of the output that are the page URL u
PageLines(u) == { k \in DOMAIN out_file : out_file[k] = << u >> }

\* C30: when main has returned, the output holds one block for every item
\* with a URL and none for an item with no URL or with an exception
C30_OnceEach ==
  mpc = "done" =>
    \A i \in DOMAIN results :
      Cardinality(PageLines(results[i].url)) =
        IF results[i].kind = "value" /\ results[i].urls # << >> THEN 1 ELSE 0

\* ------------------------------------------------------------------------
\* SpecScraper: the page pool of scripts/scraper.py (process_page 139-158,
\*              main 174-187)
\* ------------------------------------------------------------------------

\* the page numbers of a run: range(1, PAGES_TO_FETCH + 1), bounded
MaxPageNo == 3

PageNos == 1..MaxPageNo

\* the <a> tags of the pages: the href, whether POST_PATTERN matches it,
\* and the src of the <img> inside, None when there is none
AnchorTags == { "a1", "a2", "a3", "a4" }

Anchor(t) ==
  CASE t = "a1" -> [href |-> "https://jav.guru/1/x", post |-> TRUE,  src |-> "i1"]
    [] t = "a2" -> [href |-> "https://jav.guru/2/y", post |-> TRUE,  src |-> "i2"]
    [] t = "a3" -> [href |-> "https://jav.guru/tag", post |-> FALSE, src |-> "i3"]
    [] t = "a4" -> [href |-> "https://jav.guru/4/z", post |-> TRUE,  src |-> "None"]

\* what fetch_with_retries returns for a page: None, or a page as the
\* sequence of its <a> tags
PageBodies == { NoneVal, << "a1" >>, << "a1", "a2" >>, << "a3", "a4" >> }

\* extract_links(html): the (href, src) pairs of the tags whose href is a
\* post URL and that hold an <img> with a src
extract_links(body) ==
  { << Anchor(body[i]).href, Anchor(body[i]).src >> :
      i \in { k \in 1..Len(body) :
                Anchor(body[k]).post /\ Anchor(body[k]).src # "None" } }

\* a mutant of LockFree: the lock is taken whoever holds it
LockFreeAlways(holder) == TRUE

\* async with results_lock: the task goes on when no task holds the lock
LockFree(holder) == holder = 0

InitScraper ==
  /\ IdleNorm
  /\ IdleMerge
  /\ IdleFetch
  /\ IdleCrawl
  /\ IdleNext
  /\ IdleDec
  /\ IdleEx
  /\ IdleProc
  /\ IdleMain
  /\ max_concurrency \in 1..MaxConcurrency
  /\ page_body \in [PageNos -> PageBodies]
  /\ page_sem = max_concurrency
  /\ page_pc = [p \in PageNos |-> "new"]
  /\ page_found = [p \in PageNos |-> { }]
  /\ results_lock = 0
  /\ link_results = { }
  /\ spc = "gather"

\* async with sem: a task takes a slot and calls fetch_with_retries
EnterPage(p) ==
  /\ spc = "gather"
  /\ page_pc[p] = "new"
  /\ page_sem > 0
  /\ page_sem' = page_sem - 1
  /\ page_pc' = [page_pc EXCEPT ![p] = "fetch"]
  /\ UNCHANGED << max_concurrency, page_body, page_found, results_lock, link_results, spc >>
  /\ UNCHANGED << normVars, mergeVars, fetchVars, crawlVars, nextVars, decVars, exVars,
                  procVars, mainVars >>

\* fetch_with_retries returns: the slot is given back; without a page the
\* task returns, with one it calls extract_links
PageFetched(p) ==
  /\ page_pc[p] = "fetch"
  /\ page_sem' = page_sem + 1
  /\ IF Truthy(page_body[p])
       THEN /\ page_found' = [page_found EXCEPT ![p] = extract_links(page_body[p])]
            /\ page_pc' = [page_pc EXCEPT ![p] = "found"]
       ELSE /\ page_pc' = [page_pc EXCEPT ![p] = "failed"]
            /\ UNCHANGED page_found
  /\ UNCHANGED << max_concurrency, page_body, results_lock, link_results, spc >>
  /\ UNCHANGED << normVars, mergeVars, fetchVars, crawlVars, nextVars, decVars, exVars,
                  procVars, mainVars >>

\* async with results_lock: the lock is taken
LockAcquire(p) ==
  /\ page_pc[p] = "found"
  /\ LockFree(results_lock)
  /\ results_lock' = p
  /\ page_pc' = [page_pc EXCEPT ![p] = "locked"]
  /\ UNCHANGED << max_concurrency, page_body, page_sem, page_found, link_results, spc >>
  /\ UNCHANGED << normVars, mergeVars, fetchVars, crawlVars, nextVars, decVars, exVars,
                  procVars, mainVars >>

\* results.update(found), and the lock is given back
UpdateResults(p) ==
  /\ page_pc[p] = "locked"
  /\ link_results' = link_results \cup page_found[p]
  /\ results_lock' = 0
  /\ page_pc' = [page_pc EXCEPT ![p] = "done"]
  /\ UNCHANGED << max_concurrency, page_body, page_sem, page_found, spc >>
  /\ UNCHANGED << normVars, mergeVars, fetchVars, crawlVars, nextVars, decVars, exVars,
                  procVars, mainVars >>

\* await asyncio.gather(*tasks) returns when every task has returned
GatherPages ==
  /\ spc = "gather"
  /\ \A p \in PageNos : page_pc[p] \in { "done", "failed" }
  /\ spc' = "done"
  /\ UNCHANGED << max_concurrency, page_body, page_sem, page_pc, page_found,
                  results_lock, link_results >>
  /\ UNCHANGED << normVars, mergeVars, fetchVars, crawlVars, nextVars, decVars, exVars,
                  procVars, mainVars >>

NextScraper ==
  \/ \E p \in PageNos : EnterPage(p)
  \/ \E p \in PageNos : PageFetched(p)
  \/ \E p \in PageNos : LockAcquire(p)
  \/ \E p \in PageNos : UpdateResults(p)
  \/ GatherPages

SpecScraper == InitScraper /\ [][NextScraper]_vars

\* the tasks inside "async with results_lock"
InLock == { p \in PageNos : page_pc[p] = "locked" }

\* the pages whose task got a page from fetch_with_retries
FetchedPages == { p \in PageNos : Truthy(page_body[p]) }

\* C25: results is updated inside the lock only and at most one task is
\* inside at a time: the holder of the lock is the one task inside, results
\* is at every moment the union of the sets found by the tasks that have
\* left the lock, and when every task has returned it is the union of the
\* sets found in all the pages that were fetched.
C25_SingleSection ==
  /\ Cardinality(InLock) <= 1
  /\ \A p \in PageNos : p \in InLock <=> results_lock = p
  /\ link_results = UNION { page_found[p] : p \in { q \in PageNos : page_pc[q] = "done" } }
  /\ spc = "done" =>
       link_results = UNION { extract_links(page_body[p]) : p \in FetchedPages }

\* one task has inserted its links, one is inside the lock and one, whose
\* page holds a link of the first and a new one, waits for the lock
C25_Witness ==
  \E p, q, r \in PageNos :
    /\ page_pc[p] = "done" /\ link_results = page_found[p] /\ link_results # { }
    /\ page_pc[q] = "locked"
    /\ page_pc[r] = "found" /\ Cardinality(page_found[r] \cup link_results) = 2

====
